---------------------------- MODULE Spec2Model ----------------------------
(***************************************************************************)
(* Model of the Audacious "Album Browser" plugin: the background directory *)
(* scanner (scanner.cc), the metadata inference (metadata.cc) and the      *)
(* plugin adapter with its binary cache file (album-browser.cc).           *)
(*                                                                         *)
(* Strings are sequences of byte values (std::string), so that case        *)
(* folding, extensions, ordering and the cache file's byte layout are      *)
(* computed the way the code computes them.                                *)
(***************************************************************************)
EXTENDS Integers, Sequences, FiniteSets

(***************************************************************************)
(* Bounds of the model.                                                    *)
(***************************************************************************)
\* number of worker threads that may be spawned in one behaviour
MaxScans == 2
\* number of Scanner::scan_async calls in one behaviour of ScannerSpec
MaxCalls == 3
\* number of Scanner::cancel calls in one behaviour of ScannerSpec
MaxCancels == 1

(***************************************************************************)
(* Strings.                                                                *)
(***************************************************************************)
Slash == 47
Dot == 46

\* the bytes of a path or name are given with their text in the comment
S_Music == <<47, 77, 117, 115, 105, 99>>                \* "/Music"
S_n == <<47, 110>>                                      \* "/n"
S_l == <<47, 108>>                                      \* "/l"
S_x == <<47, 120>>                                      \* "/x"
S_f == <<47, 102>>                                      \* "/f"
N_P == <<80>>                                           \* "P"
N_1979W == <<40, 49, 57, 55, 57, 41, 32, 87>>           \* "(1979) W"
N_b == <<98>>                                           \* "b"
N_B == <<66>>                                           \* "B"
N_2flac == <<50, 46, 102, 108, 97, 99>>                 \* "2.flac"
N_1flac == <<49, 46, 102, 108, 97, 99>>                 \* "1.flac"
N_coverjpg == <<99, 111, 118, 101, 114, 46, 106, 112, 103>>  \* "cover.jpg"
N_xmp3 == <<120, 46, 109, 112, 51>>                     \* "x.mp3"
N_yogg == <<121, 46, 111, 103, 103>>                    \* "y.ogg"
S_t == <<47, 116>>                                      \* "/t"
S_v == <<47, 118>>                                      \* "/v"
S_e == <<47, 101>>                                      \* "/e"
S_c == <<47, 99>>                                       \* "/c"
N_A == <<65>>                                           \* "A"
N_s == <<115>>                                          \* "s"
N_S == <<83>>                                           \* "S"
N_e == <<101>>                                          \* "e"
N_g == <<103>>                                          \* "g"
N_k == <<107>>                                          \* "k"
N_a == <<97>>                                           \* "a"
N_q == <<113>>                                          \* "q"
N_z == <<122>>                                          \* "z"
N_amp3 == <<97, 46, 109, 112, 51>>                      \* "a.mp3"
N_cflac == <<99, 46, 102, 108, 97, 99>>                 \* "c.flac"
N_ZFLAC == <<90, 46, 70, 76, 65, 67>>                   \* "Z.FLAC"
N_hmp3 == <<46, 104, 46, 109, 112, 51>>                 \* ".h.mp3"
N_rmp3 == <<46, 95, 114, 46, 109, 112, 51>>             \* "._r.mp3"
N_ntxt == <<110, 46, 116, 120, 116>>                    \* "n.txt"
N_1ogg == <<49, 46, 111, 103, 103>>                     \* "1.ogg"
N_kwav == <<107, 46, 119, 97, 118>>                     \* "k.wav"
N_uogg == <<117, 46, 111, 103, 103>>                    \* "u.ogg"
N_wogg == <<119, 46, 111, 103, 103>>                    \* "w.ogg"
N_p == <<112>>                                          \* "p"
N_i == <<105>>                                          \* "i"
N_m == <<109>>                                          \* "m"
N_x == <<120>>                                          \* "x"
N_o == <<111>>                                          \* "o"
N_h == <<104>>                                          \* "h"
N_bpng == <<98, 46, 112, 110, 103>>                     \* "b.png"
N_Folderjpg == <<70, 111, 108, 100, 101, 114, 46, 106, 112, 103>>  \* "Folder.jpg"
N_1mp3 == <<49, 46, 109, 112, 51>>                      \* "1.mp3"
N_2mp3 == <<50, 46, 109, 112, 51>>                      \* "2.mp3"
N_hpng == <<46, 104, 46, 112, 110, 103>>                \* ".h.png"
N_zGIF == <<122, 46, 71, 73, 70>>                       \* "z.GIF"
N_xflac == <<120, 46, 102, 108, 97, 99>>                \* "x.flac"

\* ::tolower in the "C" locale
tolower(c) == IF c >= 65 /\ c <= 90 THEN c + 32 ELSE c

\* std::transform(s.begin(), s.end(), s.begin(), ::tolower)
ToLowerAscii(s) == [i \in 1..Len(s) |-> tolower(s[i])]

\* std::string operator< : lexicographic comparison of the bytes
StrLess(a, b) ==
    \E k \in 1..(Len(b)) :
        /\ \A i \in 1..(k - 1) : i <= Len(a) /\ a[i] = b[i]
        /\ \/ k = Len(a) + 1
           \/ k <= Len(a) /\ a[k] < b[k]

\* the positions of byte c in s
Positions(s, c) == {i \in 1..Len(s) : s[i] = c}

MaxOf(S) == CHOOSE x \in S : \A y \in S : y <= x

\* fs::path(dir) / name
PathJoin(dir, name) == dir \o <<Slash>> \o name

\* fs::path::filename(): what follows the last '/'
Filename(p) ==
    IF Positions(p, Slash) = {} THEN p
    ELSE SubSeq(p, MaxOf(Positions(p, Slash)) + 1, Len(p))

\* fs::path::parent_path(): what precedes the last '/' (the root "/" itself
\* for an entry of the root directory, empty for a path without '/')
ParentPath(p) ==
    IF Positions(p, Slash) = {} THEN <<>>
    ELSE IF MaxOf(Positions(p, Slash)) = 1 THEN <<Slash>>
    ELSE SubSeq(p, 1, MaxOf(Positions(p, Slash)) - 1)

\* fs::path::extension() of a file name: from the last '.', unless the name
\* has no '.', is "." or "..", or its only '.' is the first byte
Extension(name) ==
    IF \/ Positions(name, Dot) = {}
       \/ name = <<Dot>>
       \/ name = <<Dot, Dot>>
       \/ MaxOf(Positions(name, Dot)) = 1
    THEN <<>>
    ELSE SubSeq(name, MaxOf(Positions(name, Dot)), Len(name))

\* std::to_string of a non-negative integer
RECURSIVE to_string(_)
to_string(n) ==
    IF n < 10 THEN <<48 + n>>
    ELSE to_string(n \div 10) \o <<48 + (n % 10)>>

(***************************************************************************)
(* The file system the scanner reads: seven directory trees, a path that   *)
(* does not exist and a path that is a regular file.                       *)
(*   /Music/b/{x.mp3}          (x.mp3 carries an embedded picture)         *)
(*   /n/B/{y.ogg}                                                          *)
(*   /l/P/(1979) W/{2.flac, 1.flac, cover.jpg}                             *)
(*   /t/{A/, e/, S/, B/, a.mp3}                                            *)
(*   /t/A/{a.mp3, s/}          (audio, but not a leaf)                     *)
(*   /t/A/s/{c.flac, .h.mp3, ._r.mp3, Z.FLAC, n.txt}                       *)
(*   /t/e/{.h.mp3, n.txt}      (a leaf with hidden audio only)             *)
(*   /t/S/{1.ogg}              (its title equals that of /t/A/s in lower   *)
(*   /t/B/{k.wav}               case)                                      *)
(*   /v/g/{a.mp3}              (a.mp3 may be deleted during a scan)        *)
(*   /v/k/{u.ogg, w.ogg}       (w.ogg may be deleted during a scan)        *)
(*   /e/{a/, q/, z/}, /e/a/{a.mp3}, /e/q/{1.ogg}, /e/z/{k.wav}             *)
(*                             (reading /e/q may fail)                     *)
(*   /c/p/{b.png, cover.jpg, Folder.jpg, 1.mp3}   (1.mp3 has a picture)     *)
(*   /c/i/{.h.png, n.txt, z.GIF, b.png, 1.mp3}    (1.mp3 has a picture)     *)
(*   /c/m/{2.mp3, 1.mp3}       (2.mp3 has a picture, 1.mp3 has none)       *)
(*   /c/x/{x.flac}             (a picture; its extraction may fail)        *)
(*   /c/o/{1.ogg}              (a picture in a file that is not opened)    *)
(*   /c/h/{.h.png, a.mp3}      (a hidden image, no picture)                *)
(*   /x                        (absent)                                    *)
(*   /f                        (a regular file)                            *)
(* A listing is in directory-iteration order.                              *)
(***************************************************************************)
D_P == PathJoin(S_l, N_P)
D_W == PathJoin(D_P, N_1979W)
D_b == PathJoin(S_Music, N_b)
D_B == PathJoin(S_n, N_B)
D_tA == PathJoin(S_t, N_A)
D_tAs == PathJoin(D_tA, N_s)
D_te == PathJoin(S_t, N_e)
D_tS == PathJoin(S_t, N_S)
D_tB == PathJoin(S_t, N_B)
D_vg == PathJoin(S_v, N_g)
D_vk == PathJoin(S_v, N_k)
D_ea == PathJoin(S_e, N_a)
D_eq == PathJoin(S_e, N_q)
D_ez == PathJoin(S_e, N_z)
D_cp == PathJoin(S_c, N_p)
D_ci == PathJoin(S_c, N_i)
D_cm == PathJoin(S_c, N_m)
D_cx == PathJoin(S_c, N_x)
D_co == PathJoin(S_c, N_o)
D_ch == PathJoin(S_c, N_h)

File(name) == [name |-> name, kind |-> "file"]
Dir(name) == [name |-> name, kind |-> "dir"]

FSDirs == {S_Music, D_b, S_n, D_B, S_l, D_P, D_W,
           S_t, D_tA, D_tAs, D_te, D_tS, D_tB,
           S_v, D_vg, D_vk, S_e, D_ea, D_eq, D_ez,
           S_c, D_cp, D_ci, D_cm, D_cx, D_co, D_ch}

Listing(p) ==
    CASE p = S_Music -> <<Dir(N_b)>>
      [] p = S_l     -> <<Dir(N_P)>>
      [] p = D_P     -> <<Dir(N_1979W)>>
      [] p = D_W     -> <<File(N_2flac), File(N_1flac), File(N_coverjpg)>>
      [] p = D_b     -> <<File(N_xmp3)>>
      [] p = S_n     -> <<Dir(N_B)>>
      [] p = D_B     -> <<File(N_yogg)>>
      [] p = S_t     -> <<Dir(N_A), Dir(N_e), Dir(N_S), Dir(N_B), File(N_amp3)>>
      [] p = D_tA    -> <<File(N_amp3), Dir(N_s)>>
      [] p = D_tAs   -> <<File(N_cflac), File(N_hmp3), File(N_rmp3), File(N_ZFLAC),
                          File(N_ntxt)>>
      [] p = D_te    -> <<File(N_hmp3), File(N_ntxt)>>
      [] p = D_tS    -> <<File(N_1ogg)>>
      [] p = D_tB    -> <<File(N_kwav)>>
      [] p = S_v     -> <<Dir(N_g), Dir(N_k)>>
      [] p = D_vg    -> <<File(N_amp3)>>
      [] p = D_vk    -> <<File(N_uogg), File(N_wogg)>>
      [] p = S_e     -> <<Dir(N_a), Dir(N_q), Dir(N_z)>>
      [] p = D_ea    -> <<File(N_amp3)>>
      [] p = D_eq    -> <<File(N_1ogg)>>
      [] p = D_ez    -> <<File(N_kwav)>>
      [] p = S_c     -> <<Dir(N_p), Dir(N_i), Dir(N_m), Dir(N_x), Dir(N_o), Dir(N_h)>>
      [] p = D_cp    -> <<File(N_bpng), File(N_coverjpg), File(N_Folderjpg), File(N_1mp3)>>
      [] p = D_ci    -> <<File(N_hpng), File(N_ntxt), File(N_zGIF), File(N_bpng),
                          File(N_1mp3)>>
      [] p = D_cm    -> <<File(N_2mp3), File(N_1mp3)>>
      [] p = D_cx    -> <<File(N_xflac)>>
      [] p = D_co    -> <<File(N_1ogg)>>
      [] p = D_ch    -> <<File(N_hpng), File(N_amp3)>>
      [] OTHER       -> <<>>

\* the files that may be deleted while a scan is running, and the
\* directories whose reading may fail
Vanishing == {PathJoin(D_vg, N_amp3), PathJoin(D_vk, N_wogg)}
FaultyDirs == {D_eq}

\* fs::is_directory
IsDirectory(p) == p \in FSDirs

\* fs::is_regular_file
IsRegularFile(p) ==
    \/ p = S_f
    \/ \E d \in FSDirs : \E i \in 1..Len(Listing(d)) :
          Listing(d)[i].kind = "file" /\ PathJoin(d, Listing(d)[i].name) = p

\* fs::exists
Exists(p) == IsDirectory(p) \/ IsRegularFile(p)

\* the audio files whose tags hold a picture (TagLib's answer)
HasEmbeddedPicture(file) ==
    file \in { PathJoin(D_b, N_xmp3), PathJoin(D_cp, N_1mp3), PathJoin(D_ci, N_1mp3),
               PathJoin(D_cm, N_2mp3), PathJoin(D_cx, N_xflac), PathJoin(D_co, N_1ogg) }

\* the audio files whose tags may fail to parse and whose temporary file
\* may fail to be written
FaultyMedia == {PathJoin(D_cx, N_xflac)}

\* the entries fs::recursive_directory_iterator(root) yields, in order:
\* each entry of a directory, followed by the entries below it when it is
\* itself a directory (depth first, pre-order)
RECURSIVE WalkFrom(_, _)
WalkFrom(dir, i) ==
    IF i > Len(Listing(dir)) THEN <<>>
    ELSE LET e == Listing(dir)[i]
             path == PathJoin(dir, e.name)
         IN  <<[path |-> path, kind |-> e.kind]>>
             \o (IF e.kind = "dir" THEN WalkFrom(path, 1) ELSE <<>>)
             \o WalkFrom(dir, i + 1)

\* an iteration that yields the root itself before its entries
Walk_with_root(root) == <<[path |-> root, kind |-> "dir"]>> \o WalkFrom(root, 1)

Walk(root) == WalkFrom(root, 1)

(***************************************************************************)
(* scanner.cc: the tests on one directory.                                 *)
(***************************************************************************)
AudioExtensions ==
    { <<46, 102, 108, 97, 99>>,   \* .flac
      <<46, 109, 112, 51>>,       \* .mp3
      <<46, 111, 103, 103>>,      \* .ogg
      <<46, 111, 112, 117, 115>>, \* .opus
      <<46, 109, 52, 97>>,        \* .m4a
      <<46, 97, 97, 99>>,         \* .aac
      <<46, 119, 97, 118>>,       \* .wav
      <<46, 119, 118>>,           \* .wv
      <<46, 97, 112, 101>> }      \* .ape

ImageExtensions ==
    { <<46, 106, 112, 103>>,      \* .jpg
      <<46, 106, 112, 101, 103>>, \* .jpeg
      <<46, 112, 110, 103>>,      \* .png
      <<46, 103, 105, 102>>,      \* .gif
      <<46, 98, 109, 112>>,       \* .bmp
      <<46, 119, 101, 98, 112>> } \* .webp

\* the two "continue" tests: "._name" and any name beginning with '.'
IsHiddenName(name) ==
    \/ Len(name) > 2 /\ name[1] = Dot /\ name[2] = 95
    \/ Len(name) > 0 /\ name[1] = Dot

\* the test without the two "continue" statements for hidden names
IsAudioEntry_with_hidden(e) ==
    /\ e.kind = "file"
    /\ ToLowerAscii(Extension(e.name)) \in AudioExtensions

IsAudioEntry(e) ==
    /\ e.kind = "file"
    /\ ~IsHiddenName(e.name)
    /\ ToLowerAscii(Extension(e.name)) \in AudioExtensions

IsImageEntry(e) ==
    /\ e.kind = "file"
    /\ ~IsHiddenName(e.name)
    /\ ToLowerAscii(Extension(e.name)) \in ImageExtensions

is_leaf_directory(path) ==
    \A i \in 1..Len(Listing(path)) : Listing(path)[i].kind # "dir"

contains_audio_files(path) ==
    \E i \in 1..Len(Listing(path)) : IsAudioEntry(Listing(path)[i])

(***************************************************************************)
(* metadata.cc: extract_metadata.                                          *)
(***************************************************************************)
IsDigit(c) == c >= 48 /\ c <= 57

\* \s of std::regex (ECMAScript): space, \t, \n, \v, \f, \r
IsSpace(c) == c = 32 \/ (c >= 9 /\ c <= 13)

\* what '.' does not match: the line terminators
IsLineTerminator(c) == c = 10 \/ c = 13

\* the lengths k the group \s+ can take in ^\((\d{4})\)\s+(.+)$ : the name
\* is "(", four digits, ")", k >= 1 white-space bytes, and a non-empty rest
\* without a line terminator
YearPatternSplits(name) ==
    {k \in 1..(Len(name) - 7) :
        /\ name[1] = 40
        /\ \A i \in 2..5 : IsDigit(name[i])
        /\ name[6] = 41
        /\ \A i \in 7..(6 + k) : IsSpace(name[i])
        /\ \A i \in (7 + k)..Len(name) : ~IsLineTerminator(name[i])}

\* std::regex_match(album_name, year_match, year_pattern)
YearPatternMatches(name) == YearPatternSplits(name) # {}

\* std::stoi(year_match[1]) : the four digits
YearOfMatch(name) ==
    1000 * (name[2] - 48) + 100 * (name[3] - 48) + 10 * (name[4] - 48) + (name[5] - 48)

\* year_match[2] : \s+ is greedy, so the rest starts after the longest run
TitleOfMatch(name) ==
    SubSeq(name, 7 + MaxOf(YearPatternSplits(name)), Len(name))

\* path.has_parent_path() && path.parent_path().has_filename()
ParentName(directory_path) ==
    IF ParentPath(directory_path) # <<>> /\ Filename(ParentPath(directory_path)) # <<>>
    THEN Filename(ParentPath(directory_path))
    ELSE <<>>

\* the reserved names compared without regard to case
ReservedRootNames_any_case ==
    { <<77, 117, 115, 105, 99>>, <<109, 117, 115, 105, 99>>, <<77, 85, 83, 73, 67>>,
      <<65, 108, 98, 117, 109, 115>>, <<97, 108, 98, 117, 109, 115>>,
      <<65, 76, 66, 85, 77, 83>> }

\* lines 58-62
ReservedRootNames ==
    { <<77, 117, 115, 105, 99>>,       \* Music
      <<109, 117, 115, 105, 99>>,      \* music
      <<65, 108, 98, 117, 109, 115>>,  \* Albums
      <<97, 108, 98, 117, 109, 115>> } \* albums

\* the fields extract_metadata assigns
extract_metadata(directory_path) ==
    LET album_name == Filename(directory_path)
        parent_name == ParentName(directory_path)
    IN  [ title  |-> IF YearPatternMatches(album_name)
                     THEN TitleOfMatch(album_name) ELSE album_name,
          year   |-> IF YearPatternMatches(album_name)
                     THEN YearOfMatch(album_name) ELSE 0,
          artist |-> IF parent_name # <<>> /\ parent_name \notin ReservedRootNames
                     THEN parent_name ELSE <<>> ]

(***************************************************************************)
(* scanner.cc: cover art and the Album of one directory.                   *)
(***************************************************************************)
cover_names == <<
    <<67, 111, 118, 101, 114, 46, 106, 112, 103>>,            \* Cover.jpg
    <<70, 111, 108, 100, 101, 114, 46, 106, 112, 103>>,       \* Folder.jpg
    <<99, 111, 118, 101, 114, 46, 106, 112, 103>>,            \* cover.jpg
    <<102, 111, 108, 100, 101, 114, 46, 106, 112, 103>>,      \* folder.jpg
    <<102, 114, 111, 110, 116, 46, 106, 112, 103>>,           \* front.jpg
    <<70, 114, 111, 110, 116, 46, 106, 112, 103>>,            \* Front.jpg
    <<97, 108, 98, 117, 109, 46, 106, 112, 103>>,             \* album.jpg
    <<65, 108, 98, 117, 109, 46, 106, 112, 103>>,             \* Album.jpg
    <<97, 114, 116, 119, 111, 114, 107, 46, 106, 112, 103>>,  \* artwork.jpg
    <<65, 114, 116, 119, 111, 114, 107, 46, 106, 112, 103>>,  \* Artwork.jpg
    <<67, 111, 118, 101, 114, 46, 112, 110, 103>>,            \* Cover.png
    <<70, 111, 108, 100, 101, 114, 46, 112, 110, 103>>,       \* Folder.png
    <<99, 111, 118, 101, 114, 46, 112, 110, 103>>,            \* cover.png
    <<102, 111, 108, 100, 101, 114, 46, 112, 110, 103>>,      \* folder.png
    <<102, 114, 111, 110, 116, 46, 112, 110, 103>>,           \* front.png
    <<70, 114, 111, 110, 116, 46, 112, 110, 103>>,            \* Front.png
    <<97, 108, 98, 117, 109, 46, 112, 110, 103>>,             \* album.png
    <<65, 108, 98, 117, 109, 46, 112, 110, 103>>,             \* Album.png
    <<97, 114, 116, 119, 111, 114, 107, 46, 112, 110, 103>>,  \* artwork.png
    <<65, 114, 116, 119, 111, 114, 107, 46, 112, 110, 103>>,  \* Artwork.png
    <<67, 111, 118, 101, 114, 46, 106, 112, 101, 103>>,       \* Cover.jpeg
    <<99, 111, 118, 101, 114, 46, 106, 112, 101, 103>>,       \* cover.jpeg
    <<70, 111, 108, 100, 101, 114, 46, 106, 112, 101, 103>>,  \* Folder.jpeg
    <<102, 111, 108, 100, 101, 114, 46, 106, 112, 101, 103>>, \* folder.jpeg
    <<99, 111, 118, 101, 114, 46, 74, 80, 71>>,               \* cover.JPG
    <<67, 79, 86, 69, 82, 46, 74, 80, 71>>,                   \* COVER.JPG
    <<102, 111, 108, 100, 101, 114, 46, 74, 80, 71>>,         \* folder.JPG
    <<70, 79, 76, 68, 69, 82, 46, 74, 80, 71>> >>             \* FOLDER.JPG

MinOf(S) == CHOOSE x \in S : \A y \in S : x <= y

\* the listing of a directory once the files `gone` have been deleted
ListingAt(p, gone) ==
    SelectSeq(Listing(p), LAMBDA e : PathJoin(p, e.name) \notin gone)

\* a find_cover_art that takes the first image of the directory before it
\* probes the names of the list
find_cover_art_images_first(path, gone) ==
    LET named == {i \in 1..Len(cover_names) :
                     /\ IsRegularFile(PathJoin(path, cover_names[i]))
                     /\ PathJoin(path, cover_names[i]) \notin gone}
        list == ListingAt(path, gone)
        images == {i \in 1..Len(list) : IsImageEntry(list[i])}
    IN  IF images # {} THEN PathJoin(path, list[MinOf(images)].name)
        ELSE IF named # {} THEN PathJoin(path, cover_names[MinOf(named)])
        ELSE <<>>

\* lines 129-185: find_cover_art, the files `gone` having been deleted
find_cover_art(path, gone) ==
    LET named == {i \in 1..Len(cover_names) :
                     /\ IsRegularFile(PathJoin(path, cover_names[i]))
                     /\ PathJoin(path, cover_names[i]) \notin gone}
        list == ListingAt(path, gone)
        images == {i \in 1..Len(list) : IsImageEntry(list[i])}
    IN  IF named # {} THEN PathJoin(path, cover_names[MinOf(named)])
        ELSE IF images # {} THEN PathJoin(path, list[MinOf(images)].name)
        ELSE <<>>

\* std::hash<std::string> is implementation-defined; any function of the
\* path serves: here the sum of its bytes
RECURSIVE SumBytes(_)
SumBytes(s) == IF s = <<>> THEN 0 ELSE s[1] + SumBytes(Tail(s))

TempCoverPath(audio_file) ==
    <<47, 116, 109, 112, 47, 97, 117, 100, 97, 99, 105, 111, 117, 115, 95,
      99, 111, 118, 101, 114, 95>>                  \* "/tmp/audacious_cover_"
    \o to_string(SumBytes(audio_file))
    \o <<46, 106, 112, 103>>                        \* ".jpg"

\* how an extraction can go: the picture is written; the file is not
\* valid or TagLib throws; the std::ofstream fails to open or to write
ExtractOutcomes(audio_file) ==
    IF audio_file \in FaultyMedia THEN {"ok", "tag_error", "write_failed"} ELSE {"ok"}

\* lines 189-240: only .flac and .mp3 files are opened, and a picture is
\* looked for in a valid file
FindsPicture(audio_file, io) ==
    /\ ToLowerAscii(Extension(Filename(audio_file)))
           \in { <<46, 102, 108, 97, 99>>, <<46, 109, 112, 51>> }
    /\ HasEmbeddedPicture(audio_file)
    /\ io # "tag_error"

\* lines 203-211 and 230-238: temp_path is returned whatever became of the
\* stream; nothing tests it
extract_embedded_art(audio_file, io) ==
    IF FindsPicture(audio_file, io) THEN TempCoverPath(audio_file) ELSE <<>>

\* the temporary files the call leaves written with the picture
TempWritten(audio_file, io) ==
    IF FindsPicture(audio_file, io) /\ io = "ok" THEN {TempCoverPath(audio_file)} ELSE {}

\* std::sort of strings: insertion of x into a sorted sequence
RECURSIVE InsertSorted(_, _)
InsertSorted(x, s) ==
    IF s = <<>> THEN <<x>>
    ELSE IF StrLess(x, s[1]) THEN <<x>> \o s
    ELSE <<s[1]>> \o InsertSorted(x, Tail(s))

RECURSIVE SortStrings(_)
SortStrings(s) ==
    IF s = <<>> THEN <<>> ELSE InsertSorted(s[1], SortStrings(Tail(s)))

\* the paths pushed to album.audio_files, in directory-iteration order,
\* from the entries list[i..] of the directory
RECURSIVE AudioPathsFrom(_, _, _)
AudioPathsFrom(path, list, i) ==
    IF i > Len(list) THEN <<>>
    ELSE (IF /\ IsAudioEntry(list[i])
             /\ IsRegularFile(PathJoin(path, list[i].name))
          THEN <<PathJoin(path, list[i].name)>> ELSE <<>>)
         \o AudioPathsFrom(path, list, i + 1)

\* lines 269-296: album.audio_files, the files `gone` having been deleted
AlbumFiles(path, gone) == SortStrings(AudioPathsFrom(path, ListingAt(path, gone), 1))

\* lines 299-302: the audio file extract_embedded_art is called with, <<>>
\* when it is not called
ExtractsFrom(path, gone) ==
    IF find_cover_art(path, gone) = <<>> /\ AlbumFiles(path, gone) # <<>>
    THEN AlbumFiles(path, gone)[1] ELSE <<>>

\* create_album_from_directory, the files `gone` having been deleted and
\* the extraction, if there is one, going as `io`
create_album_from_directory(path, gone, io) ==
    LET meta == extract_metadata(path)
        cover == find_cover_art(path, gone)
        files == AlbumFiles(path, gone)
    IN  [ directory_path |-> path,
          title          |-> meta.title,
          artist         |-> meta.artist,
          year           |-> meta.year,
          cover_art_path |-> IF cover = <<>> /\ files # <<>>
                             THEN extract_embedded_art(files[1], io) ELSE cover,
          audio_files    |-> files ]

\* the comparison of the final std::sort: lowercased titles
TitleLess(a, b) == StrLess(ToLowerAscii(a.title), ToLowerAscii(b.title))

\* std::sort is not stable: any ordering of the albums in which no album
\* precedes one with a smaller key can be its result
SortResults(albums) ==
    LET n == Len(albums)
        perms == {p \in [1..n -> 1..n] : \A i, j \in 1..n : i # j => p[i] # p[j]}
    IN  { [i \in 1..n |-> albums[p[i]]] : p \in
            {q \in perms : \A i, j \in 1..n :
                i < j => ~TitleLess(albums[q[j]], albums[q[i]])} }

(***************************************************************************)
(* album-browser.cc: the cache file.  A file is a sequence of bytes.       *)
(* TLC's integers are 32 bits wide, so a uint32_t is kept as its four      *)
(* bytes and turned into a number only up to U32Cap: every larger value    *)
(* is a length or count the process cannot allocate, and reads as U32Cap.  *)
(***************************************************************************)
U32Cap == 65536

\* the four bytes of a uint32_t, most significant first
U32Bytes_big_endian(n) ==
    <<(n \div 16777216) % 256, (n \div 65536) % 256, (n \div 256) % 256, n % 256>>

\* out.write(reinterpret_cast<const char*>(&v), 4), little-endian
U32Bytes(n) ==
    <<n % 256, (n \div 256) % 256, (n \div 65536) % 256, (n \div 16777216) % 256>>

U32Value(b) ==
    IF b[3] = 0 /\ b[4] = 0 THEN b[1] + 256 * b[2] ELSE U32Cap

\* the four bytes of an int, two's complement
I32Bytes(y) ==
    IF y >= 0 THEN U32Bytes(y)
    ELSE [i \in 1..4 |-> 255 - U32Bytes(-y - 1)[i]]

I32Value(b) ==
    IF b[4] < 128
    THEN b[1] + 256 * b[2] + 65536 * b[3] + 16777216 * b[4]
    ELSE -(  (255 - b[1]) + 256 * (255 - b[2]) + 65536 * (255 - b[3])
           + 16777216 * (255 - b[4])) - 1

\* uint32_t len = s.length(); out.write(&len, 4); out.write(s.c_str(), len)
WriteString(s) == U32Bytes(Len(s)) \o s

RECURSIVE WriteStrings(_)
WriteStrings(ss) ==
    IF ss = <<>> THEN <<>> ELSE WriteString(ss[1]) \o WriteStrings(Tail(ss))

WriteAlbum(album) ==
    WriteString(album.directory_path)
    \o WriteString(album.title)
    \o WriteString(album.artist)
    \o I32Bytes(album.year)
    \o WriteString(album.cover_art_path)
    \o U32Bytes(Len(album.audio_files))
    \o WriteStrings(album.audio_files)

RECURSIVE WriteAlbums(_)
WriteAlbums(albums) ==
    IF albums = <<>> THEN <<>> ELSE WriteAlbum(albums[1]) \o WriteAlbums(Tail(albums))

\* the bytes save_cache writes once the file is open
SaveCacheBytes(music_directory, albums) ==
    U32Bytes(1)
    \o WriteString(music_directory)
    \o U32Bytes(Len(albums))
    \o WriteAlbums(albums)

AbsentFile == [present |-> FALSE, bytes |-> <<>>]
FileOf(bytes) == [present |-> TRUE, bytes |-> bytes]

(***************************************************************************)
(* load_cache reads with std::istream::read and never tests the stream.    *)
(* A reader is the position of the next byte and the stream's failbit.     *)
(* read(buf, n) on a good stream with n bytes left copies them; with fewer *)
(* left it copies what is left, leaves the rest of buf as it was and sets  *)
(* failbit; on a failed stream it does nothing.                            *)
(***************************************************************************)
NewReader == [pos |-> 1, fail |-> FALSE]

ReadInto(f, r, buf) ==
    LET n == Len(buf)
        avail == Len(f) - r.pos + 1
    IN  IF r.fail THEN [buf |-> buf, r |-> r]
        ELSE IF n <= avail
        THEN [buf |-> SubSeq(f, r.pos, r.pos + n - 1),
              r   |-> [pos |-> r.pos + n, fail |-> FALSE]]
        ELSE [buf |-> SubSeq(f, r.pos, Len(f)) \o SubSeq(buf, avail + 1, n),
              r   |-> [pos |-> Len(f) + 1, fail |-> TRUE]]

Zeros(n) == [i \in 1..n |-> 0]

\* a length or count at which resize, reserve or the loop of push_back
\* throws std::bad_alloc / std::length_error
AllocFails(n) == n >= U32Cap

\* Each read is an operator of its own that takes what the reads before
\* it gave, in the order of the statements of load_cache.

\* in.read(&s[0], len) done: the string, the bytes len holds, the stream
StringRead(l, s) == [exc |-> FALSE, str |-> s.buf, len |-> l.buf, r |-> s.r]

\* s.resize(len); in.read(&s[0], len), l being the read of len.  exc: the
\* resize threw.
ResizeAndRead(f, l) ==
    IF AllocFails(U32Value(l.buf))
    THEN [exc |-> TRUE, str |-> <<>>, len |-> l.buf, r |-> l.r]
    ELSE StringRead(l, ReadInto(f, l.r, Zeros(U32Value(l.buf))))

\* in.read(&len, 4); s.resize(len); in.read(&s[0], len), where `was` holds
\* the four bytes of len before the read
ReadString(f, r, was) == ResizeAndRead(f, ReadInto(f, r, was))

\* album.audio_files.push_back(file), and the rest of the loop
PushFile(s, rest) ==
    [exc |-> rest.exc, files |-> <<s.str>> \o rest.files, len |-> rest.len, r |-> rest.r]

\* the loop over file_count: n strings, each read through the same len
RECURSIVE ReadFiles(_, _, _, _)
RECURSIVE ReadFilesFrom(_, _, _)
ReadFilesFrom(f, n, s) ==
    IF s.exc THEN [exc |-> TRUE, files |-> <<>>, len |-> s.len, r |-> s.r]
    ELSE PushFile(s, ReadFiles(f, s.r, n - 1, s.len))

ReadFiles(f, r, n, was) ==
    IF n = 0 THEN [exc |-> FALSE, files |-> <<>>, len |-> was, r |-> r]
    ELSE ReadFilesFrom(f, n, ReadString(f, r, was))

\* The reads of one iteration of the loop over album_count, in the order of
\* lines 864-897.  The locals len and file_count are declared without a
\* value: a reader st carries the bytes they hold, with the stream and the
\* values read so far.
AlbumLayout == <<"string", "string", "string", "int", "string", "files">>

StoreString(st, s) ==
    [st EXCEPT !.exc = s.exc, !.r = s.r, !.len = s.len, !.vals = Append(st.vals, s.str)]

StoreInt(st, y) ==
    [st EXCEPT !.r = y.r, !.vals = Append(st.vals, I32Value(y.buf))]

StoreFiles(st, k, fs) ==
    [st EXCEPT !.exc = fs.exc, !.r = fs.r, !.len = fs.len, !.count = k.buf,
               !.vals = Append(st.vals, fs.files)]

\* lines 887-897, k being the read of file_count
ReadFileList(f, st, k) ==
    IF AllocFails(U32Value(k.buf))
    THEN [st EXCEPT !.exc = TRUE, !.r = k.r, !.count = k.buf]
    ELSE StoreFiles(st, k, ReadFiles(f, k.r, U32Value(k.buf), st.len))

ReadField(f, st, kind) ==
    IF kind = "string" THEN StoreString(st, ReadString(f, st.r, st.len))
    ELSE IF kind = "int" THEN StoreInt(st, ReadInto(f, st.r, I32Bytes(0)))
    ELSE ReadFileList(f, st, ReadInto(f, st.r, st.count))

\* the reads go on until one throws
RECURSIVE ReadFields(_, _, _)
ReadFields(f, st, layout) ==
    IF layout = <<>> \/ st.exc THEN st
    ELSE ReadFields(f, ReadField(f, st, Head(layout)), Tail(layout))

\* the Album of an iteration whose reads are st
AlbumRead(st) ==
    [ exc   |-> st.exc,
      album |-> IF st.exc THEN <<>>
                ELSE [ directory_path |-> st.vals[1],
                       title          |-> st.vals[2],
                       artist         |-> st.vals[3],
                       year           |-> st.vals[4],
                       cover_art_path |-> st.vals[5],
                       audio_files    |-> st.vals[6] ],
      len   |-> st.len,
      count |-> st.count,
      r     |-> st.r ]

\* one iteration of the loop over album_count
ReadAlbum(f, r, lenWas, countWas) ==
    AlbumRead(ReadFields(f, [r |-> r, len |-> lenWas, count |-> countWas,
                             exc |-> FALSE, vals |-> <<>>], AlbumLayout))

\* albums_.push_back(album), and the rest of the loop
PushAlbum(a, rest) == [exc |-> rest.exc, albums |-> <<a.album>> \o rest.albums]

\* An indeterminate uint32_t: g.val are the bytes an uninitialised local
\* holds; with g.stale the locals of a loop body hold what the previous
\* iteration left in them.
RECURSIVE ReadAlbums(_, _, _, _, _, _)
RECURSIVE ReadAlbumsFrom(_, _, _, _)
ReadAlbumsFrom(f, n, g, a) ==
    IF a.exc THEN [exc |-> TRUE, albums |-> <<>>]
    ELSE PushAlbum(a, ReadAlbums(f, a.r, n - 1,
                                 IF g.stale THEN a.len ELSE g.val,
                                 IF g.stale THEN a.count ELSE g.val, g))

ReadAlbums(f, r, n, lenWas, countWas, g) ==
    IF n = 0 THEN [exc |-> FALSE, albums |-> <<>>]
    ELSE ReadAlbumsFrom(f, n, g, ReadAlbum(f, r, lenWas, countWas))

\* load_cache: the value of albums_ afterwards, `prior` being its value
\* before.  A return before albums_.clear() leaves albums_ as it was; an
\* exception ends in albums_.clear().

\* lines 902-907
LoadAlbums(loaded) == IF loaded.exc THEN <<>> ELSE loaded.albums

\* lines 854-900, album_count being the read of line 852
LoadCount(f, g, album_count) ==
    IF AllocFails(U32Value(album_count.buf)) THEN <<>>
    ELSE LoadAlbums(ReadAlbums(f, album_count.r, U32Value(album_count.buf),
                               g.val, g.val, g))

\* lines 844-852, cached_dir being the read of line 841
LoadDir(f, music_directory, prior, g, cached_dir) ==
    IF cached_dir.buf # music_directory THEN prior
    ELSE LoadCount(f, g, ReadInto(f, cached_dir.r, g.val))

\* lines 840-841, dir_len being the read of line 839
LoadDirLen(f, music_directory, prior, g, dir_len) ==
    IF AllocFails(U32Value(dir_len.buf)) THEN <<>>
    ELSE LoadDir(f, music_directory, prior, g,
                 ReadInto(f, dir_len.r, Zeros(U32Value(dir_len.buf))))

\* lines 831-839, version being the read of line 830
LoadVersion(f, music_directory, prior, g, version) ==
    IF U32Value(version.buf) # 1 THEN prior
    ELSE LoadDirLen(f, music_directory, prior, g, ReadInto(f, version.r, g.val))

LoadCache(file, music_directory, prior, g) ==
    IF ~file.present THEN prior
    ELSE LoadVersion(file.bytes, music_directory, prior, g,
                     ReadInto(file.bytes, NewReader, g.val))

(***************************************************************************)
(* State.                                                                  *)
(***************************************************************************)
VARIABLES
    \* Scanner (scanner.h)
    scanner_,           \* "null" or "alive": the plugin's unique_ptr<Scanner>
    scanning_,          \* std::atomic<bool>
    cancel_requested_,  \* std::atomic<bool>
    scan_thread_,       \* the thread the std::thread handle owns, 0 if none
    workers,            \* every thread ever spawned: its position and locals
    spawned,            \* how many threads have been spawned
    \* the caller's (main) thread
    mpc,                \* "idle", or where it blocks: "join", "cleanup_join"
    pending,            \* the arguments of the scan_async call that blocks
    \* GLib main loop
    idle_queue,         \* the g_idle_add sources not yet dispatched
    sources,            \* the pending g_timeout_add sources of the rescan timer
    next_source,        \* the id the next g_timeout_add returns
    \* AlbumBrowserPlugin
    plugin,             \* "off" before init() and after cleanup(), else "on"
    main_widget_,       \* TRUE when the widgets (grid_view_, ...) exist
    music_directory_,
    albums_,
    pixbuf_cache_,      \* the map, as a set of [key, cover] entries
    cache_file,         \* album-browser-cache.dat
    file_monitor_,      \* TRUE when a GFileMonitor is installed
    rescan_timeout_id_,
    relayout_timeout_id_,
    search_timeout_id_,
    search_filter_,
    last_search_filter_,
    last_cols_per_row_,
    window_width,       \* allocated width of scrolled_window_
    grid,               \* the Album copies held by the tiles of grid_view_
    \* history, read by the properties only
    n_calls,            \* Scanner::scan_async calls made so far
    n_cancels,          \* cancel calls made by the caller of ScannerSpec
    second_call_early,  \* the 2nd scan_async call came before the 1st callback
    applied,            \* the scans whose collection update_albums applied
    saved_scan,         \* the scan whose collection save_cache wrote last
    load_input,         \* what the last load_cache was given, and its result
    eval,               \* the last application of a pure function: its arguments and result
    \* the host application (libaudcore)
    host                \* its playlists, the active one and the playing one

scannerVars == <<scanner_, scanning_, cancel_requested_, scan_thread_, workers, spawned>>
mainVars == <<mpc, pending>>
glibVars == <<idle_queue, sources, next_source>>
viewVars == <<search_filter_, last_search_filter_, last_cols_per_row_, window_width, grid,
              relayout_timeout_id_, search_timeout_id_>>
pluginVars == <<plugin, main_widget_, music_directory_, albums_, pixbuf_cache_,
                cache_file, file_monitor_, rescan_timeout_id_, viewVars>>
historyVars == <<n_calls, n_cancels, second_call_early, applied, saved_scan, load_input,
                 eval>>
vars == <<scannerVars, mainVars, glibVars, pluginVars, historyVars, host>>

\* getenv("HOME") is unset: music_directory_ = "" + "/Music"
DefaultMusicDirectory == S_Music

Threads == 1..MaxScans

\* a thread that was not spawned yet
Unborn ==
    [ pc |-> "unborn", root |-> <<>>, callback |-> "none", pos |-> 0,
      album_dirs |-> <<>>, idx |-> 0, albums |-> <<>>,
      cbs |-> 0, cancelled |-> FALSE,
      failed |-> {},   \* the directories whose reading failed, and how
      gone |-> {},     \* the files found deleted when their album was built
      tried |-> {},    \* the audio files extract_embedded_art was called with
      temp |-> {} ]    \* the temporary files written with a picture

NoLoad ==
    [file |-> AbsentFile, root |-> <<>>, prior |-> <<>>, result |-> <<>>, done |-> FALSE]

\* no pure function has been applied yet
NoEval == [fn |-> "none"]

\* the host before it is looked at: no playlist, nothing playing
NoPlaylists == [lists |-> <<>>, active |-> 0, playing |-> 0, position |-> 0]

\* everything but the Scanner object, the index and the cache file, which
\* the specifications start from different values
InitRest ==
    /\ scanning_ = FALSE
    /\ cancel_requested_ = FALSE
    /\ scan_thread_ = 0
    /\ workers = [t \in Threads |-> Unborn]
    /\ spawned = 0
    /\ mpc = "idle"
    /\ pending = [root |-> <<>>, callback |-> "none"]
    /\ idle_queue = <<>>
    /\ sources = {}
    /\ next_source = 1
    /\ main_widget_ = FALSE
    /\ pixbuf_cache_ = {}
    /\ file_monitor_ = FALSE
    /\ rescan_timeout_id_ = 0
    /\ relayout_timeout_id_ = 0
    /\ search_timeout_id_ = 0
    /\ search_filter_ = <<>>
    /\ last_search_filter_ = <<>>
    /\ last_cols_per_row_ = 0
    /\ window_width = 0
    /\ grid = <<>>
    /\ n_calls = 0
    /\ n_cancels = 0
    /\ second_call_early = FALSE
    /\ applied = {}
    /\ saved_scan = 0
    /\ load_input = NoLoad
    /\ eval = NoEval
    /\ host = NoPlaylists

(***************************************************************************)
(* scanner.cc: Scanner::scan_async, cancel, is_scanning on the caller's    *)
(* thread.  scan_async blocks in scan_thread_.join() until the previous    *)
(* thread has returned, so it is two steps: up to the join, and from it.   *)
(***************************************************************************)
is_scanning == scanning_

\* a thread is alive from its spawn until its function returns
Alive(t) == workers[t].pc \notin {"unborn", "finished", "joined"}

\* scan_thread_.joinable() && the join has to wait
JoinReturns ==
    IF scan_thread_ = 0 THEN TRUE ELSE workers[scan_thread_].pc = "finished"

\* scan_async without the test of line 49: every call goes on to the join
scan_async_enter_untested(root_path, callback) ==
    /\ scanner_ = "alive"
    /\ mpc = "idle"
    /\ n_calls' = n_calls + 1
    /\ second_call_early' =
         (second_call_early \/ (n_calls = 1 /\ spawned = 1 /\ workers[1].cbs = 0))
    /\ spawned < MaxScans
    /\ mpc' = "join"
    /\ pending' = [root |-> root_path, callback |-> callback]
    /\ UNCHANGED <<scannerVars, n_cancels, applied, saved_scan, load_input, eval, host>>

\* lines 49-54: the test of scanning_, then on to the join
scan_async_enter(root_path, callback) ==
    /\ scanner_ = "alive"
    /\ mpc = "idle"
    /\ n_calls' = n_calls + 1
    /\ second_call_early' =
         (second_call_early \/ (n_calls = 1 /\ spawned = 1 /\ workers[1].cbs = 0))
    /\ IF scanning_
       THEN UNCHANGED <<mpc, pending>>
       ELSE /\ spawned < MaxScans
            /\ mpc' = "join"
            /\ pending' = [root |-> root_path, callback |-> callback]
    /\ UNCHANGED <<scannerVars, n_cancels, applied, saved_scan, load_input, eval, host>>

\* a scan_async that does not join: the thread is spawned while the previous
\* one may still be running
scan_async_spawn_without_join ==
    /\ mpc = "join"
    /\ scanning_' = TRUE
    /\ cancel_requested_' = FALSE
    /\ spawned' = spawned + 1
    /\ scan_thread_' = spawned + 1
    /\ workers' = [t \in Threads |->
          IF t = spawned + 1
          THEN [Unborn EXCEPT !.pc = "start", !.root = pending.root,
                              !.callback = pending.callback]
          ELSE workers[t]]
    /\ mpc' = "idle"
    /\ UNCHANGED <<scanner_, pending, historyVars, host>>

\* a scan_async without the store of line 57: an earlier cancel request
\* stays in force
scan_async_spawn_keeps_cancel ==
    /\ mpc = "join"
    /\ JoinReturns
    /\ scanning_' = TRUE
    /\ spawned' = spawned + 1
    /\ scan_thread_' = spawned + 1
    /\ workers' = [t \in Threads |->
          IF t = spawned + 1
          THEN [Unborn EXCEPT !.pc = "start", !.root = pending.root,
                              !.callback = pending.callback]
          ELSE IF t = scan_thread_ THEN [workers[t] EXCEPT !.pc = "joined"]
          ELSE workers[t]]
    /\ mpc' = "idle"
    /\ UNCHANGED <<scanner_, cancel_requested_, pending, historyVars, host>>

\* lines 53-65: join returns, the flags are set, the thread is spawned
scan_async_spawn ==
    /\ mpc = "join"
    /\ JoinReturns
    /\ scanning_' = TRUE
    /\ cancel_requested_' = FALSE
    /\ spawned' = spawned + 1
    /\ scan_thread_' = spawned + 1
    /\ workers' = [t \in Threads |->
          IF t = spawned + 1
          THEN [Unborn EXCEPT !.pc = "start", !.root = pending.root,
                              !.callback = pending.callback]
          ELSE IF t = scan_thread_ THEN [workers[t] EXCEPT !.pc = "joined"]
          ELSE workers[t]]
    /\ mpc' = "idle"
    /\ UNCHANGED <<scanner_, pending, historyVars, host>>

\* line 70 (the history records which scan the request was made for)
cancel ==
    /\ cancel_requested_' = TRUE
    /\ workers' = [t \in Threads |->
          IF t = scan_thread_ /\ Alive(t) /\ workers[t].cbs = 0
          THEN [workers[t] EXCEPT !.cancelled = TRUE]
          ELSE workers[t]]

(***************************************************************************)
(* scanner.cc: the worker thread, lines 59-65 and scan_directory_tree.     *)
(* One step per access to the atomics: the test of cancel_requested_ at    *)
(* the top of each loop iteration, the store to scanning_, the test        *)
(* before the callback, the callback.                                      *)
(***************************************************************************)
\* The file system does not change during a behaviour, so what the worker
\* computes from it is tabulated once: the entries below each root and the
\* Album of each directory.
AllRoots == {S_Music, S_n, S_l, S_t, S_v, S_e, S_c, S_x, S_f, D_B, D_W, D_P}
WalkOf == [root \in AllRoots |-> Walk(root)]
AlbumAt ==
    [path \in FSDirs |->
        [gone \in SUBSET Vanishing |-> create_album_from_directory(path, gone, "ok")]]
AlbumOf == [path \in FSDirs |-> AlbumAt[path][{}]]

\* where the thread goes when the first pass is over
AfterFirstPass(album_dirs) == IF album_dirs = <<>> THEN "sort" ELSE "pass2"

\* a scan that treats a missing root as an error: the thread clears the
\* flag and returns without the callback
WorkerStart_missing_is_error(t) ==
    /\ workers[t].pc = "start"
    /\ LET w == workers[t]
           missing == ~Exists(w.root) \/ ~IsDirectory(w.root)
       IN  /\ workers' = [workers EXCEPT ![t] =
                 [w EXCEPT !.pc = IF missing THEN "finished"
                                   ELSE IF WalkOf[w.root] = <<>> THEN "sort"
                                   ELSE "pass1",
                           !.pos = 1]]
           /\ scanning_' = IF missing THEN FALSE ELSE scanning_
    /\ UNCHANGED <<scanner_, cancel_requested_, scan_thread_, spawned>>
    /\ UNCHANGED <<mainVars, glibVars, pluginVars, historyVars, host>>

\* lines 313-322: the test of the root, then the iterator is made
WorkerStart(t) ==
    /\ workers[t].pc = "start"
    /\ LET w == workers[t]
           missing == ~Exists(w.root) \/ ~IsDirectory(w.root)
       IN  workers' = [workers EXCEPT ![t] =
             [w EXCEPT !.pc = IF missing THEN "clear"
                               ELSE IF WalkOf[w.root] = <<>> THEN "sort"
                               ELSE "pass1",
                       !.pos = 1]]
    /\ UNCHANGED <<scanner_, scanning_, cancel_requested_, scan_thread_, spawned>>
    /\ UNCHANGED <<mainVars, glibVars, pluginVars, historyVars, host>>

\* what reading a directory entry's directory can give: it is read; it
\* is denied (EACCES), which the iterator skips; any other error, which
\* the iterator throws
ReadOutcomes(entry) ==
    IF entry.kind = "dir" /\ entry.path \in FaultyDirs
    THEN {"ok", "denied", "error"} ELSE {"ok"}

\* the index in `walk` of the first entry after pos that is not below the
\* directory walk[pos]
SubtreeEnd(walk, pos) ==
    LET d == walk[pos].path \o <<Slash>>
        below(i) == /\ Len(walk[i].path) > Len(d)
                    /\ SubSeq(walk[i].path, 1, Len(d)) = d
        after == {i \in (pos + 1)..Len(walk) : ~below(i)}
    IN  IF after = {} THEN Len(walk) + 1 ELSE MinOf(after)

\* lines 326-342: one iteration of the first pass.  is_leaf_directory
\* answers false for a directory it cannot read (lines 88-91); the
\* iterator's increment skips a directory it is denied and throws on any
\* other error, which ends the loop in the catch of line 344
WorkerFirstPass(t) ==
    /\ workers[t].pc = "pass1"
    /\ \E read \in ReadOutcomes(WalkOf[workers[t].root][workers[t].pos]) :
        LET w == workers[t]
            walk == WalkOf[w.root]
            entry == walk[w.pos]
            dirs == IF /\ entry.kind = "dir"
                       /\ read = "ok"
                       /\ is_leaf_directory(entry.path)
                       /\ contains_audio_files(entry.path)
                    THEN Append(w.album_dirs, entry.path)
                    ELSE w.album_dirs
            failed == IF read = "ok" THEN w.failed
                      ELSE w.failed \cup {[dir |-> entry.path, how |-> read]}
            next == IF read = "ok" THEN w.pos + 1 ELSE SubtreeEnd(walk, w.pos)
        IN  workers' = [workers EXCEPT ![t] =
              IF cancel_requested_
              THEN [w EXCEPT !.pc = AfterFirstPass(w.album_dirs), !.idx = 1]
              ELSE [w EXCEPT !.album_dirs = dirs,
                             !.failed = failed,
                             !.pos = next,
                             !.idx = 1,
                             !.pc = IF read # "error" /\ next <= Len(walk)
                                    THEN "pass1" ELSE AfterFirstPass(dirs)]]
    /\ UNCHANGED <<scanner_, scanning_, cancel_requested_, scan_thread_, spawned>>
    /\ UNCHANGED <<mainVars, glibVars, pluginVars, historyVars, host>>

\* the files of a directory that may have been deleted when it is built
GoneChoices(dir) == SUBSET {f \in Vanishing : ParentPath(f) = dir}

\* line 355: what create_album_from_directory can build for a directory,
\* with the files it found deleted
BuiltAt ==
    [path \in FSDirs |->
        UNION {{[ album |-> create_album_from_directory(path, gone, io),
                  gone  |-> gone,
                  tried |-> {ExtractsFrom(path, gone)} \ {<<>>},
                  temp  |-> IF ExtractsFrom(path, gone) = <<>> THEN {}
                            ELSE TempWritten(ExtractsFrom(path, gone), io) ] :
                    io \in IF ExtractsFrom(path, gone) = <<>> THEN {"ok"}
                           ELSE ExtractOutcomes(ExtractsFrom(path, gone))} :
               gone \in GoneChoices(path)}]

\* a second pass that keeps every Album it built
WorkerSecondPass_keeps_empty(t) ==
    /\ workers[t].pc = "pass2"
    /\ \E built \in BuiltAt[workers[t].album_dirs[workers[t].idx]] :
        LET w == workers[t]
            album == built.album
        IN  workers' = [workers EXCEPT ![t] =
              IF cancel_requested_
              THEN [w EXCEPT !.pc = "sort"]
              ELSE [w EXCEPT !.albums = Append(w.albums, album),
                             !.gone = w.gone \cup built.gone,
                             !.tried = w.tried \cup built.tried,
                             !.temp = w.temp \cup built.temp,
                             !.idx = w.idx + 1,
                             !.pc = IF w.idx + 1 <= Len(w.album_dirs)
                                    THEN "pass2" ELSE "sort"]]
    /\ UNCHANGED <<scanner_, scanning_, cancel_requested_, scan_thread_, spawned>>
    /\ UNCHANGED <<mainVars, glibVars, pluginVars, historyVars, host>>

\* a second pass without the test of line 352: every candidate is built
WorkerSecondPass_ignores_cancel(t) ==
    /\ workers[t].pc = "pass2"
    /\ \E built \in BuiltAt[workers[t].album_dirs[workers[t].idx]] :
        LET w == workers[t]
            album == built.album
        IN  workers' = [workers EXCEPT ![t] =
              [w EXCEPT !.albums = IF album.audio_files # <<>>
                                   THEN Append(w.albums, album) ELSE w.albums,
                        !.gone = w.gone \cup built.gone,
                        !.tried = w.tried \cup built.tried,
                        !.temp = w.temp \cup built.temp,
                        !.idx = w.idx + 1,
                        !.pc = IF w.idx + 1 <= Len(w.album_dirs)
                               THEN "pass2" ELSE "sort"]]
    /\ UNCHANGED <<scanner_, scanning_, cancel_requested_, scan_thread_, spawned>>
    /\ UNCHANGED <<mainVars, glibVars, pluginVars, historyVars, host>>

\* lines 350-358: one iteration of the second pass, the Album being built
\* from what the directory holds by then
WorkerSecondPass(t) ==
    /\ workers[t].pc = "pass2"
    /\ \E built \in BuiltAt[workers[t].album_dirs[workers[t].idx]] :
        LET w == workers[t]
            album == built.album
        IN  workers' = [workers EXCEPT ![t] =
              IF cancel_requested_
              THEN [w EXCEPT !.pc = "sort"]
              ELSE [w EXCEPT !.albums = IF album.audio_files # <<>>
                                        THEN Append(w.albums, album) ELSE w.albums,
                             !.gone = w.gone \cup built.gone,
                             !.tried = w.tried \cup built.tried,
                             !.temp = w.temp \cup built.temp,
                             !.idx = w.idx + 1,
                             !.pc = IF w.idx + 1 <= Len(w.album_dirs)
                                    THEN "pass2" ELSE "sort"]]
    /\ UNCHANGED <<scanner_, scanning_, cancel_requested_, scan_thread_, spawned>>
    /\ UNCHANGED <<mainVars, glibVars, pluginVars, historyVars, host>>

\* a scan that returns the albums in the order they were built
WorkerSort_unsorted(t) ==
    /\ workers[t].pc = "sort"
    /\ workers' = [workers EXCEPT ![t] = [workers[t] EXCEPT !.pc = "clear"]]
    /\ UNCHANGED <<scanner_, scanning_, cancel_requested_, scan_thread_, spawned>>
    /\ UNCHANGED <<mainVars, glibVars, pluginVars, historyVars, host>>

\* lines 361-369: the sort, and the return to the lambda
WorkerSort(t) ==
    /\ workers[t].pc = "sort"
    /\ \E sorted \in SortResults(workers[t].albums) :
          workers' = [workers EXCEPT ![t] =
             [workers[t] EXCEPT !.albums = sorted, !.pc = "clear"]]
    /\ UNCHANGED <<scanner_, scanning_, cancel_requested_, scan_thread_, spawned>>
    /\ UNCHANGED <<mainVars, glibVars, pluginVars, historyVars, host>>

\* a worker that clears the flag only when the scan was not cancelled
WorkerClearScanning_unless_cancelled(t) ==
    /\ workers[t].pc = "clear"
    /\ scanning_' = IF cancel_requested_ THEN scanning_ ELSE FALSE
    /\ workers' = [workers EXCEPT ![t] = [workers[t] EXCEPT !.pc = "check"]]
    /\ UNCHANGED <<scanner_, cancel_requested_, scan_thread_, spawned>>
    /\ UNCHANGED <<mainVars, glibVars, pluginVars, historyVars, host>>

\* a worker that leaves scanning_ set when scan_directory_tree has returned
WorkerClearScanning_skipped(t) ==
    /\ workers[t].pc = "clear"
    /\ workers' = [workers EXCEPT ![t] = [workers[t] EXCEPT !.pc = "check"]]
    /\ UNCHANGED <<scanner_, scanning_, cancel_requested_, scan_thread_, spawned>>
    /\ UNCHANGED <<mainVars, glibVars, pluginVars, historyVars, host>>

\* line 61
WorkerClearScanning(t) ==
    /\ workers[t].pc = "clear"
    /\ scanning_' = FALSE
    /\ workers' = [workers EXCEPT ![t] = [workers[t] EXCEPT !.pc = "check"]]
    /\ UNCHANGED <<scanner_, cancel_requested_, scan_thread_, spawned>>
    /\ UNCHANGED <<mainVars, glibVars, pluginVars, historyVars, host>>

\* line 63: the test that guards the callback
WorkerCheckCancel(t) ==
    /\ workers[t].pc = "check"
    /\ workers' = [workers EXCEPT ![t] =
          [workers[t] EXCEPT !.pc =
              IF ~cancel_requested_ /\ workers[t].callback # "none"
              THEN "call" ELSE "finished"]]
    /\ UNCHANGED <<scanner_, scanning_, cancel_requested_, scan_thread_, spawned>>
    /\ UNCHANGED <<mainVars, glibVars, pluginVars, historyVars, host>>

\* a callback that stores the collection into the index on the worker
\* thread before it queues the handoff
WorkerCallback_stores_index(t) ==
    /\ workers[t].pc = "call"
    /\ albums_' = workers[t].albums
    /\ idle_queue' = Append(idle_queue,
          [scan |-> t, callback |-> workers[t].callback, albums |-> workers[t].albums])
    /\ workers' = [workers EXCEPT ![t] =
          [workers[t] EXCEPT !.pc = "finished", !.cbs = workers[t].cbs + 1]]
    /\ UNCHANGED <<scanner_, scanning_, cancel_requested_, scan_thread_, spawned>>
    /\ UNCHANGED <<mainVars, sources, next_source, historyVars, host>>
    /\ UNCHANGED <<plugin, main_widget_, music_directory_, pixbuf_cache_, cache_file,
                   file_monitor_, rescan_timeout_id_, viewVars>>

\* line 64, and the callback itself (album-browser.cc lines 171-182): the
\* collection is copied and handed to the main loop with g_idle_add
WorkerCallback(t) ==
    /\ workers[t].pc = "call"
    /\ idle_queue' = Append(idle_queue,
          [scan |-> t, callback |-> workers[t].callback, albums |-> workers[t].albums])
    /\ workers' = [workers EXCEPT ![t] =
          [workers[t] EXCEPT !.pc = "finished", !.cbs = workers[t].cbs + 1]]
    /\ UNCHANGED <<scanner_, scanning_, cancel_requested_, scan_thread_, spawned>>
    /\ UNCHANGED <<mainVars, sources, next_source, pluginVars, historyVars, host>>

WorkerStep(t) ==
    \/ WorkerStart(t)
    \/ WorkerFirstPass(t)
    \/ WorkerSecondPass(t)
    \/ WorkerSort(t)
    \/ WorkerClearScanning(t)
    \/ WorkerCheckCancel(t)
    \/ WorkerCallback(t)

Worker == \E t \in Threads : WorkerStep(t)

(***************************************************************************)
(* ScannerSpec: one Scanner and a caller thread that makes any sequence of *)
(* scan_async and cancel calls.                                            *)
(***************************************************************************)
ScannerRoots == {S_n, S_x, S_f}
Callbacks == {"handoff", "other"}

ScannerInit ==
    /\ scanner_ = "alive"
    /\ plugin = "off"
    /\ cache_file = AbsentFile
    /\ music_directory_ = <<>>
    /\ albums_ = <<>>
    /\ InitRest

CallScanAsync ==
    \E root \in ScannerRoots, cb \in Callbacks :
        /\ n_calls < MaxCalls
        /\ scan_async_enter(root, cb)
        /\ UNCHANGED <<glibVars, pluginVars>>

ReturnScanAsync ==
    /\ scan_async_spawn
    /\ UNCHANGED <<glibVars, pluginVars>>

CallCancel ==
    /\ scanner_ = "alive"
    /\ mpc = "idle"
    /\ n_cancels < MaxCancels
    /\ cancel
    /\ n_cancels' = n_cancels + 1
    /\ UNCHANGED <<scanner_, scanning_, scan_thread_, spawned>>
    /\ UNCHANGED <<mainVars, glibVars, pluginVars>>
    /\ UNCHANGED <<n_calls, second_call_early, applied, saved_scan, load_input, eval, host>>

ScannerNext ==
    \/ CallScanAsync
    \/ ReturnScanAsync
    \/ CallCancel
    \/ Worker

ScannerSpec == ScannerInit /\ [][ScannerNext]_vars

\* the scheduler runs a thread that can run
ScannerLiveSpec == ScannerSpec /\ WF_vars(Worker) /\ WF_vars(ReturnScanAsync)

(***************************************************************************)
(* TreeSpec: uncancelled scans of the trees /t, /v and /e, in which files  *)
(* are deleted and a directory fails to be read while the scan runs.       *)
(***************************************************************************)
TreeRoots == {S_t, S_v, S_e}

TreeScan ==
    \E root \in TreeRoots :
        /\ n_calls < MaxCalls
        /\ scan_async_enter(root, "handoff")
        /\ UNCHANGED <<glibVars, pluginVars>>

TreeNext ==
    \/ TreeScan
    \/ ReturnScanAsync
    \/ Worker

TreeSpec == ScannerInit /\ [][TreeNext]_vars

\* CoverSpec: scans of the trees whose directories hold cover images and
\* audio files with embedded pictures
CoverRoots == {S_c, S_l, S_Music}

CoverScan ==
    \E root \in CoverRoots :
        /\ n_calls < MaxCalls
        /\ scan_async_enter(root, "handoff")
        /\ UNCHANGED <<glibVars, pluginVars>>

CoverNext ==
    \/ CoverScan
    \/ ReturnScanAsync
    \/ Worker

CoverSpec == ScannerInit /\ [][CoverNext]_vars

\* LeafRootSpec: scans whose root is itself a directory of audio files, the
\* parent of one, or the directory above that
LeafRoots == {D_B, D_W, D_P, S_n}

LeafRootScan ==
    \E root \in LeafRoots :
        /\ n_calls < MaxCalls
        /\ scan_async_enter(root, "handoff")
        /\ UNCHANGED <<glibVars, pluginVars>>

LeafRootNext ==
    \/ LeafRootScan
    \/ ReturnScanAsync
    \/ Worker

LeafRootSpec == ScannerInit /\ [][LeafRootNext]_vars

\* CancelSpec: scans of trees with several album directories, which the
\* caller may cancel at any moment
CancelRoots == {S_t, S_v}

CancelScan ==
    \E root \in CancelRoots :
        /\ n_calls < MaxCalls
        /\ scan_async_enter(root, "handoff")
        /\ UNCHANGED <<glibVars, pluginVars>>

CancelNext ==
    \/ CancelScan
    \/ ReturnScanAsync
    \/ CallCancel
    \/ Worker

CancelSpec == ScannerInit /\ [][CancelNext]_vars

(***************************************************************************)
(* album-browser.cc: the search filter and the grid of tiles.              *)
(***************************************************************************)
tile_width == 220

Max(a, b) == IF a >= b THEN a ELSE b

\* std::string::find(sub) != npos
Contains(s, sub) ==
    \E i \in 0..(Len(s) - Len(sub)) : SubSeq(s, i + 1, i + Len(sub)) = sub

\* g_utf8_strdown; the strings of the model are ASCII
to_lower(str) == ToLowerAscii(str)

\* album_matches_filter without lines 285-291: the year is not searched
album_matches_filter_without_year(album, filter) ==
    IF filter = <<>> THEN TRUE
    ELSE \/ Contains(to_lower(album.title), to_lower(filter))
         \/ Contains(to_lower(album.artist), to_lower(filter))
         \/ Contains(to_lower(album.directory_path), to_lower(filter))

\* lines 266-294
album_matches_filter(album, filter) ==
    IF filter = <<>> THEN TRUE
    ELSE \/ Contains(to_lower(album.title), to_lower(filter))
         \/ Contains(to_lower(album.artist), to_lower(filter))
         \/ Contains(to_lower(album.directory_path), to_lower(filter))
         \/ album.year > 0 /\ Contains(to_string(album.year), filter)

\* album.h: has_cover_art()
has_cover_art(album) == album.cover_art_path # <<>>

\* gdk_pixbuf_new_from_file_at_scale succeeds on an image file of the tree
\* and on the temporary file extract_embedded_art wrote
LoadsAsImage(path) ==
    \/ /\ IsRegularFile(path)
       /\ ToLowerAscii(Extension(Filename(path))) \in ImageExtensions
    \/ path = TempCoverPath(PathJoin(D_b, N_xmp3))

\* lines 345-384: where the pixbuf of a tile comes from; <<>> is nullptr
LoadPixbuf(album) ==
    IF has_cover_art(album) /\ LoadsAsImage(album.cover_art_path)
    THEN album.cover_art_path
    ELSE IF album.audio_files # <<>> /\ HasEmbeddedPicture(album.audio_files[1])
    THEN album.audio_files[1]
    ELSE <<>>

CacheKeys(cache) == {e.key : e \in cache}

\* lines 334-396: the cache after the tile of `album` was made
create_album_tile(album, cache) ==
    IF album.directory_path \in CacheKeys(cache) THEN cache
    ELSE cache \cup {[key |-> album.directory_path, pixbuf |-> LoadPixbuf(album)]}

\* lines 230-245: the tiles of albums[i..], the next one going to cell n
RECURSIVE LayoutTiles(_, _, _, _, _, _)
LayoutTiles(albums, i, filter, cols_per_row, n, cache) ==
    IF i > Len(albums) THEN [grid |-> <<>>, cache |-> cache]
    ELSE IF ~album_matches_filter(albums[i], filter)
    THEN LayoutTiles(albums, i + 1, filter, cols_per_row, n, cache)
    ELSE LET rest == LayoutTiles(albums, i + 1, filter, cols_per_row, n + 1,
                                 create_album_tile(albums[i], cache))
         IN  [grid  |-> <<[album |-> albums[i],
                           col   |-> n % cols_per_row,
                           row   |-> n \div cols_per_row]>> \o rest.grid,
              cache |-> rest.cache]

\* relayout_grid, given the values albums_ and pixbuf_cache_ have when it
\* is called (relayout_in_progress_ is false whenever a handler starts)
relayout_grid(widget, albums, cache) ==
    LET cols_per_row == Max(1, window_width' \div tile_width)
        filter_changed == search_filter_' # last_search_filter_
        columns_changed == cols_per_row # last_cols_per_row_
        tiles == LayoutTiles(albums, 1, search_filter_', cols_per_row, 0, cache)
    IN  IF ~widget \/ albums = <<>> \/ (~filter_changed /\ ~columns_changed)
        THEN /\ pixbuf_cache_' = cache
             /\ UNCHANGED <<last_cols_per_row_, last_search_filter_, grid>>
        ELSE /\ last_cols_per_row_' = cols_per_row
             /\ last_search_filter_' = search_filter_'
             /\ grid' = tiles.grid
             /\ pixbuf_cache_' = tiles.cache

(***************************************************************************)
(* album-browser.cc: the plugin.  One action per entry point or signal     *)
(* handler; all of them run on the main thread, which runs one at a time   *)
(* and none while it is blocked in a join.                                 *)
(***************************************************************************)
\* the folders the directory chooser can return
Folders == {S_Music, S_n}
\* the texts typed into the search entry: "n", which /n/B matches and
\* /Music/b does not
Filters == {<<110>>}
\* the widths the scrolled window is allocated: room for two columns
Widths == {440}
\* number of relevant file monitor events in one behaviour
MaxEvents == 2

\* what an uninitialised uint32_t of load_cache may hold
Garbage ==
    { [val |-> <<0, 0, 0, 0>>, stale |-> TRUE],
      [val |-> <<1, 0, 0, 0>>, stale |-> FALSE] }

\* the collection a completed scan of /Music delivers
MusicAlbums == <<AlbumOf[D_b]>>

\* the cache file an earlier session may have left: none, the one written
\* after a scan of /Music, one of another format version
InitialCacheFiles ==
    { AbsentFile,
      FileOf(SaveCacheBytes(S_Music, MusicAlbums)),
      FileOf(U32Bytes(2) \o WriteString(S_Music) \o U32Bytes(0)) }

\* setup_file_monitor: g_file_monitor_directory gives a monitor or fails
setup_file_monitor == file_monitor_' \in BOOLEAN

\* save_cache: the ofstream opens and everything is written, or it does not
\* open and the file stays as it was
save_cache(albums, scan) ==
    \E opened \in BOOLEAN :
        /\ cache_file' = IF opened
                         THEN FileOf(SaveCacheBytes(music_directory_, albums))
                         ELSE cache_file
        /\ saved_scan' = IF opened THEN scan ELSE saved_scan

\* load_cache, reading music_directory_ as init has just set it
load_cache ==
    \E g \in Garbage :
        /\ albums_' = LoadCache(cache_file, music_directory_', albums_, g)
        /\ load_input' = [ file   |-> cache_file,
                           root   |-> music_directory_',
                           prior  |-> albums_,
                           result |-> albums_',
                           done   |-> TRUE ]

\* refresh_albums with music_directory_ = root
refresh_albums(root) ==
    /\ scanner_ = "alive"
    /\ IF is_scanning
       THEN UNCHANGED <<scannerVars, mainVars, historyVars, host>>
       ELSE scan_async_enter(root, "handoff")

\* lines 97-114
init ==
    /\ plugin = "off"
    /\ mpc = "idle"
    /\ plugin' = "on"
    /\ scanner_' = "alive"
    /\ scanning_' = FALSE
    /\ cancel_requested_' = FALSE
    /\ scan_thread_' = 0
    /\ music_directory_' = DefaultMusicDirectory
    /\ load_cache
    /\ setup_file_monitor
    /\ UNCHANGED <<workers, spawned, mainVars, glibVars>>
    /\ UNCHANGED <<main_widget_, pixbuf_cache_, cache_file, rescan_timeout_id_, viewVars>>
    /\ UNCHANGED <<n_calls, n_cancels, second_call_early, applied, saved_scan, eval, host>>

\* lines 118-121, up to the join of ~Scanner
cleanup_cancel ==
    /\ plugin = "on"
    /\ mpc = "idle"
    /\ cancel
    /\ mpc' = "cleanup_join"
    /\ UNCHANGED <<scanner_, scanning_, scan_thread_, spawned, pending>>
    /\ UNCHANGED <<glibVars, pluginVars, historyVars, host>>

\* lines 121-163, from the join on
cleanup_rest ==
    /\ mpc = "cleanup_join"
    /\ JoinReturns
    /\ scanner_' = "null"
    /\ scan_thread_' = 0
    /\ workers' = [t \in Threads |->
          IF t = scan_thread_ THEN [workers[t] EXCEPT !.pc = "joined"] ELSE workers[t]]
    /\ albums_' = <<>>
    /\ pixbuf_cache_' = {}
    /\ file_monitor_' = FALSE
    /\ sources' = sources \ {rescan_timeout_id_}
    /\ rescan_timeout_id_' = 0
    /\ relayout_timeout_id_' = 0
    /\ search_timeout_id_' = 0
    /\ main_widget_' = FALSE
    /\ grid' = <<>>
    /\ plugin' = "off"
    /\ mpc' = "idle"
    /\ UNCHANGED <<scanning_, cancel_requested_, spawned, pending, idle_queue, next_source>>
    /\ UNCHANGED <<music_directory_, cache_file, search_filter_, last_search_filter_,
                   last_cols_per_row_, window_width, historyVars, host>>

\* update_albums without lines 189-195: the pixbufs of the replaced index
\* stay in the cache
update_albums_keeps_pixbufs ==
    /\ mpc = "idle"
    /\ idle_queue # <<>>
    /\ idle_queue' = Tail(idle_queue)
    /\ albums_' = Head(idle_queue).albums
    /\ save_cache(Head(idle_queue).albums, Head(idle_queue).scan)
    /\ applied' = applied \cup {Head(idle_queue).scan}
    /\ UNCHANGED <<window_width, search_filter_>>
    /\ relayout_grid(main_widget_, Head(idle_queue).albums, pixbuf_cache_)
    /\ UNCHANGED <<scannerVars, mainVars, sources, next_source>>
    /\ UNCHANGED <<plugin, main_widget_, music_directory_, file_monitor_,
                   rescan_timeout_id_, relayout_timeout_id_, search_timeout_id_>>
    /\ UNCHANGED <<n_calls, n_cancels, second_call_early, load_input, eval, host>>

\* lines 185-201, run by the main loop for the oldest g_idle_add source
update_albums ==
    /\ mpc = "idle"
    /\ idle_queue # <<>>
    /\ idle_queue' = Tail(idle_queue)
    /\ albums_' = Head(idle_queue).albums
    /\ save_cache(Head(idle_queue).albums, Head(idle_queue).scan)
    /\ applied' = applied \cup {Head(idle_queue).scan}
    /\ UNCHANGED <<window_width, search_filter_>>
    /\ relayout_grid(main_widget_, Head(idle_queue).albums, {})
    /\ UNCHANGED <<scannerVars, mainVars, sources, next_source>>
    /\ UNCHANGED <<plugin, main_widget_, music_directory_, file_monitor_,
                   rescan_timeout_id_, relayout_timeout_id_, search_timeout_id_>>
    /\ UNCHANGED <<n_calls, n_cancels, second_call_early, load_input, eval, host>>

\* lines 535-675; the new scrolled window has no allocation yet
get_gtk_widget ==
    /\ plugin = "on"
    /\ mpc = "idle"
    /\ ~main_widget_
    /\ main_widget_' = TRUE
    /\ window_width' = 1
    /\ UNCHANGED search_filter_
    /\ IF albums_ # <<>>
       THEN relayout_grid(TRUE, albums_, pixbuf_cache_)
       ELSE UNCHANGED <<pixbuf_cache_, last_cols_per_row_, last_search_filter_, grid>>
    /\ refresh_albums(music_directory_)
    /\ UNCHANGED <<glibVars, plugin, music_directory_, albums_, cache_file, file_monitor_,
                   rescan_timeout_id_, relayout_timeout_id_, search_timeout_id_>>

\* lines 553-596, the chooser answering with `folder`
dir_button_clicked ==
    \E folder \in Folders :
        /\ plugin = "on"
        /\ mpc = "idle"
        /\ main_widget_
        /\ music_directory_' = folder
        /\ setup_file_monitor
        /\ refresh_albums(folder)
        /\ UNCHANGED <<glibVars, plugin, main_widget_, albums_, pixbuf_cache_, cache_file,
                       rescan_timeout_id_, viewVars>>

\* a changed handler without the g_source_remove of lines 705-706: the
\* timer armed before stays pending
file_monitor_changed_keeps_timer ==
    /\ plugin = "on"
    /\ mpc = "idle"
    /\ file_monitor_
    /\ next_source <= MaxEvents
    /\ sources' = sources \cup {next_source}
    /\ rescan_timeout_id_' = next_source
    /\ next_source' = next_source + 1
    /\ UNCHANGED <<scannerVars, mainVars, idle_queue, historyVars, host>>
    /\ UNCHANGED <<plugin, main_widget_, music_directory_, albums_, pixbuf_cache_,
                   cache_file, file_monitor_, viewVars>>

\* lines 696-718, for a created, deleted, moved-in or moved-out event
file_monitor_changed ==
    /\ plugin = "on"
    /\ mpc = "idle"
    /\ file_monitor_
    /\ next_source <= MaxEvents
    /\ sources' = (sources \ {rescan_timeout_id_}) \cup {next_source}
    /\ rescan_timeout_id_' = next_source
    /\ next_source' = next_source + 1
    /\ UNCHANGED <<scannerVars, mainVars, idle_queue, historyVars, host>>
    /\ UNCHANGED <<plugin, main_widget_, music_directory_, albums_, pixbuf_cache_,
                   cache_file, file_monitor_, viewVars>>

\* lines 711-716, the 2 s timer firing
rescan_timeout ==
    \E id \in sources :
        /\ mpc = "idle"
        /\ sources' = sources \ {id}
        /\ rescan_timeout_id_' = 0
        /\ refresh_albums(music_directory_)
        /\ UNCHANGED <<idle_queue, next_source>>
        /\ UNCHANGED <<plugin, main_widget_, music_directory_, albums_, pixbuf_cache_,
                       cache_file, file_monitor_, viewVars>>

\* lines 607-623, the entry's text becoming `text`
search_changed ==
    \E text \in Filters :
        /\ plugin = "on"
        /\ mpc = "idle"
        /\ main_widget_
        /\ search_filter_' = text
        /\ search_timeout_id_' = 1
        /\ UNCHANGED <<scannerVars, mainVars, glibVars, historyVars, host>>
        /\ UNCHANGED <<plugin, main_widget_, music_directory_, albums_, pixbuf_cache_,
                       cache_file, file_monitor_, rescan_timeout_id_>>
        /\ UNCHANGED <<last_search_filter_, last_cols_per_row_, window_width, grid,
                       relayout_timeout_id_>>

\* lines 618-622, the 300 ms timer firing
search_timeout ==
    /\ mpc = "idle"
    /\ search_timeout_id_ # 0
    /\ search_timeout_id_' = 0
    /\ UNCHANGED <<window_width, search_filter_>>
    /\ relayout_grid(main_widget_, albums_, pixbuf_cache_)
    /\ UNCHANGED <<scannerVars, mainVars, glibVars, historyVars, host>>
    /\ UNCHANGED <<plugin, main_widget_, music_directory_, albums_, cache_file,
                   file_monitor_, rescan_timeout_id_, relayout_timeout_id_>>

\* lines 643-657, the scrolled window being allocated `width`
size_allocate ==
    \E width \in Widths :
        /\ plugin = "on"
        /\ mpc = "idle"
        /\ main_widget_
        /\ window_width' = width
        /\ relayout_timeout_id_' = 1
        /\ UNCHANGED <<scannerVars, mainVars, glibVars, historyVars, host>>
        /\ UNCHANGED <<plugin, main_widget_, music_directory_, albums_, pixbuf_cache_,
                       cache_file, file_monitor_, rescan_timeout_id_>>
        /\ UNCHANGED <<search_filter_, last_search_filter_, last_cols_per_row_, grid,
                       search_timeout_id_>>

\* lines 652-656, the 100 ms timer firing
relayout_timeout ==
    /\ mpc = "idle"
    /\ relayout_timeout_id_ # 0
    /\ relayout_timeout_id_' = 0
    /\ UNCHANGED <<window_width, search_filter_>>
    /\ relayout_grid(main_widget_, albums_, pixbuf_cache_)
    /\ UNCHANGED <<scannerVars, mainVars, glibVars, historyVars, host>>
    /\ UNCHANGED <<plugin, main_widget_, music_directory_, albums_, cache_file,
                   file_monitor_, rescan_timeout_id_, search_timeout_id_>>

Init ==
    /\ scanner_ = "null"
    /\ plugin = "off"
    /\ cache_file \in InitialCacheFiles
    /\ music_directory_ = <<>>
    /\ albums_ = <<>>
    /\ InitRest

\* Spec: the plugin's life cycle, its scans and its cache file, with a
\* window that is left alone
Next ==
    \/ init
    \/ get_gtk_widget
    \/ dir_button_clicked
    \/ file_monitor_changed
    \/ rescan_timeout
    \/ update_albums
    \/ cleanup_cancel
    \/ cleanup_rest
    \/ ReturnScanAsync
    \/ Worker

Spec == Init /\ [][Next]_vars

\* RefreshSpec: one life of the plugin in which the user selects folders and
\* the file monitor reports changes; the scheduler runs a thread that can
\* run, and the main loop dispatches its timers and idle sources
RefreshNext ==
    \/ init
    \/ get_gtk_widget
    \/ dir_button_clicked
    \/ file_monitor_changed
    \/ rescan_timeout
    \/ update_albums
    \/ ReturnScanAsync
    \/ Worker

RefreshSpec ==
    /\ Init
    /\ [][RefreshNext]_vars
    /\ WF_vars(Worker)
    /\ WF_vars(ReturnScanAsync)
    /\ WF_vars(rescan_timeout)
    /\ WF_vars(update_albums)

\* ViewSpec: one life of the plugin, with a user who types into the search
\* entry and resizes the window
ViewNext ==
    \/ init
    \/ get_gtk_widget
    \/ dir_button_clicked
    \/ search_changed
    \/ search_timeout
    \/ size_allocate
    \/ relayout_timeout
    \/ update_albums
    \/ ReturnScanAsync
    \/ Worker

ViewSpec == Init /\ [][ViewNext]_vars

(***************************************************************************)
(* CacheSpec: save_cache and load_cache alone, applied to the roots and    *)
(* collections below.  The stream of save_cache is never tested, so a      *)
(* write that fails (a full disk, a killed process) leaves a file that     *)
(* ends at any byte.                                                       *)
(***************************************************************************)
CacheRoots == {S_Music, S_n}
CacheCollections == {<<>>, <<AlbumOf[D_B], AlbumOf[D_W]>>}

\* what save_cache writes for each root and collection, computed once
SavedBytes ==
    [root \in CacheRoots, albums \in CacheCollections |-> SaveCacheBytes(root, albums)]

\* what the actions of CacheSpec leave alone
CacheFrame ==
    /\ UNCHANGED <<scannerVars, mainVars, glibVars, viewVars>>
    /\ UNCHANGED <<plugin, main_widget_, pixbuf_cache_, file_monitor_, rescan_timeout_id_>>
    /\ UNCHANGED <<n_calls, n_cancels, second_call_early, applied, saved_scan, eval, host>>

CacheInit ==
    /\ scanner_ = "null"
    /\ plugin = "on"
    /\ cache_file = AbsentFile
    /\ music_directory_ \in CacheRoots
    /\ albums_ \in CacheCollections
    /\ InitRest

\* lines 187-198: the index is replaced and written; `written` bytes reach
\* the file
CacheUpdate ==
    \E albums \in CacheCollections :
        \E written \in 0..Len(SavedBytes[music_directory_, albums]) :
            /\ albums_' = albums
            /\ cache_file' =
                 FileOf(SubSeq(SavedBytes[music_directory_, albums], 1, written))
            /\ load_input' = NoLoad
            /\ UNCHANGED music_directory_
            /\ CacheFrame

\* line 105 and line 573: music_directory_ is assigned
CacheSetRoot ==
    \E root \in CacheRoots :
        /\ music_directory_' = root
        /\ load_input' = NoLoad
        /\ UNCHANGED <<albums_, cache_file>>
        /\ CacheFrame

\* line 122: albums_.clear()
CacheClear ==
    /\ albums_' = <<>>
    /\ load_input' = NoLoad
    /\ UNCHANGED <<music_directory_, cache_file>>
    /\ CacheFrame

\* lines 819-910
CacheLoad ==
    /\ UNCHANGED <<music_directory_, cache_file>>
    /\ load_cache
    /\ CacheFrame

CacheNext ==
    \/ CacheUpdate
    \/ CacheSetRoot
    \/ CacheClear
    \/ CacheLoad

CacheSpec == CacheInit /\ [][CacheNext]_vars

(***************************************************************************)
(* PureSpec: extract_metadata and album_matches_filter alone, applied to   *)
(* directory paths and to (Album, query) pairs drawn from bounded sets;    *)
(* `eval` records the arguments and the result of the last application.    *)
(***************************************************************************)
L_Dummy == <<68, 117, 109, 109, 121>>                                   \* "Dummy"
L_1994Dummy == <<40, 49, 57, 57, 52, 41, 32, 68, 117, 109, 109, 121>>   \* "(1994) Dummy"
L_1994DummySp == <<40, 49, 57, 57, 52, 41, 32, 68, 117, 109, 109, 121, 32>>  \* "(1994) Dummy "
L_1994SpSpDummy == <<40, 49, 57, 57, 52, 41, 32, 32, 68, 117, 109, 109, 121>>  \* "(1994)  Dummy"
L_1994NoSp == <<40, 49, 57, 57, 52, 41, 68, 117, 109, 109, 121>>        \* "(1994)Dummy"
L_199D == <<40, 49, 57, 57, 41, 32, 68>>                                \* "(199) D"
L_19945D == <<40, 49, 57, 57, 52, 53, 41, 32, 68>>                      \* "(19945) D"
L_1994Blank == <<40, 49, 57, 57, 52, 41, 32, 32, 32>>                   \* "(1994)   "
L_1994Sp == <<40, 49, 57, 57, 52, 41, 32>>                              \* "(1994) "
L_0000D == <<40, 48, 48, 48, 48, 41, 32, 68>>                           \* "(0000) D"
L_Sp1994D == <<32, 40, 49, 57, 57, 52, 41, 32, 68>>                     \* " (1994) D"
L_1994TabD == <<40, 49, 57, 57, 52, 41, 9, 68>>                         \* "(1994)\tD"

\* the leaf names extract_metadata is applied to
MetaLeaves ==
    { L_Dummy, L_1994Dummy, L_1994DummySp, L_1994SpSpDummy, L_1994NoSp, L_199D,
      L_19945D, L_1994Blank, L_1994Sp, L_0000D, L_Sp1994D, L_1994TabD, N_1979W }

P_Music == <<47, 77, 117, 115, 105, 99>>                 \* "/Music"
P_music == <<47, 109, 117, 115, 105, 99>>                \* "/music"
P_Albums == <<47, 65, 108, 98, 117, 109, 115>>           \* "/Albums"
P_albums == <<47, 97, 108, 98, 117, 109, 115>>           \* "/albums"
P_MUSIC == <<47, 77, 85, 83, 73, 67>>                    \* "/MUSIC"
P_MusicP == <<47, 77, 117, 115, 105, 99, 47, 80>>        \* "/Music/P"
P_PMusic == <<47, 80, 47, 77, 117, 115, 105, 99>>        \* "/P/Music"

\* the directories the leaves lie in: none (a relative path of one
\* component), the root directory, and directories with a reserved and with
\* another name
MetaParents ==
    { <<>>, <<Slash>>, P_Music, P_music, P_Albums, P_albums, P_MUSIC, D_P,
      P_MusicP, P_PMusic }

MetaPath(parent, leaf) ==
    IF parent = <<>> THEN leaf
    ELSE IF parent = <<Slash>> THEN <<Slash>> \o leaf
    ELSE PathJoin(parent, leaf)

MetaPaths == {MetaPath(parent, leaf) : parent \in MetaParents, leaf \in MetaLeaves}

\* the years an Album of the index can carry: 0 for unknown, else positive
FilterYears == {0, 7, 1979, 2000}

\* the Albums the filter is applied to: Albums a scan builds, and Albums
\* with the same strings and another year, as a cache file can hold them
FilterAlbums ==
    {[AlbumOf[d] EXCEPT !.year = y] : d \in {D_W, D_b, D_B}, y \in FilterYears}
        \cup {AlbumOf[D_W], AlbumOf[D_tAs]}

Q_0 == <<48>>                         \* "0"
Q_7 == <<55>>                         \* "7"
Q_97 == <<57, 55>>                    \* "97"
Q_1979 == <<49, 57, 55, 57>>          \* "1979"
Q_200 == <<50, 48, 48>>               \* "200"
Q_w == <<119>>                        \* "w"
Q_mus == <<109, 117, 115>>            \* "mus"
Q_MUS == <<77, 85, 83>>               \* "MUS"

\* the texts of the search entry
FilterQueries ==
    { <<>>, Q_0, Q_7, Q_97, Q_1979, Q_200, Q_w, N_P, N_b, N_B, Q_mus, Q_MUS,
      <<Slash>>, N_z }

PureInit ==
    /\ scanner_ = "null"
    /\ plugin = "off"
    /\ cache_file = AbsentFile
    /\ music_directory_ = <<>>
    /\ albums_ = <<>>
    /\ InitRest

PureFrame ==
    /\ UNCHANGED <<scannerVars, mainVars, glibVars, pluginVars>>
    /\ UNCHANGED <<n_calls, n_cancels, second_call_early, applied, saved_scan, load_input, host>>

\* metadata.cc lines 27-72, called at scanner.cc line 263
ApplyExtractMetadata ==
    \E directory_path \in MetaPaths :
        /\ eval' = [ fn   |-> "extract_metadata",
                     path |-> directory_path,
                     out  |-> extract_metadata(directory_path) ]
        /\ PureFrame

\* album-browser.cc lines 266-294, called at line 235
ApplyAlbumMatchesFilter ==
    \E album \in FilterAlbums, filter \in FilterQueries :
        /\ eval' = [ fn     |-> "album_matches_filter",
                     album  |-> album,
                     filter |-> filter,
                     out    |-> album_matches_filter(album, filter) ]
        /\ PureFrame

PureNext ==
    \/ ApplyExtractMetadata
    \/ ApplyAlbumMatchesFilter

PureSpec == PureInit /\ [][PureNext]_vars

(***************************************************************************)
(* album-browser.cc: add_album_to_playlist, and the playlists of the host  *)
(* it works on.  A playlist is known by its place in host.lists; playing   *)
(* is the place of the playing playlist, 0 when playback is stopped, and   *)
(* position the place of the playing entry in it.                          *)
(***************************************************************************)
T_Album == <<65, 108, 98, 117, 109>>                        \* "Album"
T_NewPlaylist == <<78, 101, 119, 32, 80, 108, 97, 121, 108, 105, 115, 116>>  \* "New Playlist"
T_Mix == <<77, 105, 120>>                                   \* "Mix"
U_file == <<102, 105, 108, 101, 58, 47, 47>>                \* "file://"
U_old == U_file \o <<47, 111>>                              \* "file:///o"

\* the characters str_encode_percent leaves as they are
IsUriLegal(c) ==
    \/ c >= 48 /\ c <= 57
    \/ c >= 65 /\ c <= 90
    \/ c >= 97 /\ c <= 122
    \/ c \in {45, 95, 46, 126, 47}

HexDigit(n) == IF n < 10 THEN 48 + n ELSE 55 + n

RECURSIVE str_encode_percent(_)
str_encode_percent(str) ==
    IF str = <<>> THEN <<>>
    ELSE (IF IsUriLegal(str[1]) THEN <<str[1]>>
          ELSE <<37, HexDigit(str[1] \div 16), HexDigit(str[1] % 16)>>)
         \o str_encode_percent(Tail(str))

\* line 483: filename_to_uri of an absolute path
filename_to_uri(name) == U_file \o str_encode_percent(name)

\* lines 480-485: the items built from album.audio_files
RECURSIVE ItemsFrom(_, _)
ItemsFrom(audio_files, i) ==
    IF i > Len(audio_files) THEN <<>>
    ELSE <<filename_to_uri(audio_files[i])>> \o ItemsFrom(audio_files, i + 1)

\* Playlist::new_playlist: an empty playlist put after the active one and
\* made the active one; the playlists behind it move one place
new_playlist(h) ==
    [h EXCEPT !.lists = SubSeq(h.lists, 1, h.active)
                            \o <<[title |-> T_NewPlaylist, entries |-> <<>>]>>
                            \o SubSeq(h.lists, h.active + 1, Len(h.lists)),
              !.active = h.active + 1,
              !.playing = IF h.playing > h.active THEN h.playing + 1 ELSE h.playing]

\* Playlist::set_title
set_title(h, pl, title) == [h EXCEPT !.lists[pl].title = title]

\* Playlist::remove_all_entries: playback stops when the playing entry goes
remove_all_entries(h, pl) ==
    [h EXCEPT !.lists[pl].entries = <<>>,
              !.playing = IF h.playing = pl THEN 0 ELSE h.playing,
              !.position = IF h.playing = pl THEN 0 ELSE h.position]

\* Playlist::insert_items(at, items, play): the items go before entry at+1;
\* with play set, playback starts at the first of them
insert_items(h, pl, at, items, play) ==
    LET old == h.lists[pl].entries
        new == SubSeq(old, 1, at) \o items \o SubSeq(old, at + 1, Len(old))
    IN  [h EXCEPT !.lists[pl].entries = new,
                  !.playing = IF play /\ items # <<>> THEN pl ELSE h.playing,
                  !.position = IF play /\ items # <<>> THEN at + 1
                               ELSE IF h.playing = pl /\ h.position > at
                               THEN h.position + Len(items)
                               ELSE h.position]

\* lines 494-503: the first playlist titled "Album", 0 when there is none
FindAlbumPlaylist(h) ==
    LET titled == {i \in 1..Len(h.lists) : h.lists[i].title = T_Album}
    IN  IF titled = {} THEN 0 ELSE MinOf(titled)

\* lines 506-510: the host with a playlist titled "Album"
WithAlbumPlaylist(h) ==
    IF FindAlbumPlaylist(h) # 0 THEN h
    ELSE set_title(new_playlist(h), h.active + 1, T_Album)

\* lines 513-519
should_autoplay(h) == h.playing # 0 /\ h.lists[h.playing].title = T_Album

\* an add_album_to_playlist that puts the items before the first entry of
\* the active playlist
add_album_to_playlist_prepends(h, album, clear_first) ==
    LET items == ItemsFrom(album.audio_files, 1)
    IN  IF clear_first
        THEN LET h1 == WithAlbumPlaylist(h)
                 album_playlist == FindAlbumPlaylist(h1)
             IN  insert_items(remove_all_entries(h1, album_playlist), album_playlist, 0,
                              items, should_autoplay(h1))
        ELSE insert_items(h, h.active, 0, items, FALSE)

\* lines 477-533: the host after add_album_to_playlist(album, clear_first)
add_album_to_playlist(h, album, clear_first) ==
    LET items == ItemsFrom(album.audio_files, 1)
    IN  IF clear_first
        THEN LET h1 == WithAlbumPlaylist(h)
                 album_playlist == FindAlbumPlaylist(h1)
             IN  insert_items(remove_all_entries(h1, album_playlist), album_playlist, 0,
                              items, should_autoplay(h1))
        ELSE insert_items(h, h.active, Len(h.lists[h.active].entries), items, FALSE)

(***************************************************************************)
(* PlaylistSpec: the tiles of a grid are clicked while the user of the     *)
(* host makes playlists, activates them and starts and stops playback.     *)
(* `click` records the last click and the host it found.                   *)
(***************************************************************************)
MaxPlaylists == 2
MaxEntries == 3

\* the Albums of the tiles
TileAlbums == {AlbumOf[D_W], AlbumOf[D_B]}

\* the host always has a playlist, and one of them is active
PlaylistInit ==
    /\ scanner_ = "alive"
    /\ plugin = "on"
    /\ cache_file = AbsentFile
    /\ music_directory_ = S_l
    /\ albums_ = <<AlbumOf[D_B], AlbumOf[D_W]>>
    /\ scanning_ = FALSE
    /\ cancel_requested_ = FALSE
    /\ scan_thread_ = 0
    /\ workers = [t \in Threads |-> Unborn]
    /\ spawned = 0
    /\ mpc = "idle"
    /\ pending = [root |-> <<>>, callback |-> "none"]
    /\ idle_queue = <<>>
    /\ sources = {}
    /\ next_source = 1
    /\ main_widget_ = TRUE
    /\ pixbuf_cache_ = {}
    /\ file_monitor_ = FALSE
    /\ rescan_timeout_id_ = 0
    /\ relayout_timeout_id_ = 0
    /\ search_timeout_id_ = 0
    /\ search_filter_ = <<>>
    /\ last_search_filter_ = <<>>
    /\ last_cols_per_row_ = 0
    /\ window_width = 0
    /\ grid = <<>>
    /\ n_calls = 0
    /\ n_cancels = 0
    /\ second_call_early = FALSE
    /\ applied = {}
    /\ saved_scan = 0
    /\ load_input = NoLoad
    /\ eval = NoEval
    /\ host \in {[ lists    |-> <<[title |-> title, entries |-> entries]>>,
                   active   |-> 1,
                   playing  |-> 0,
                   position |-> 0 ] :
                     title \in {T_NewPlaylist, T_Album},
                     entries \in {<<>>, <<U_old>>}}

PlaylistFrame ==
    UNCHANGED <<scannerVars, mainVars, glibVars, pluginVars, n_calls, n_cancels,
                second_call_early, applied, saved_scan, load_input>>

\* lines 442-457: the button-press-event of a tile; button 1 replaces,
\* button 3 appends, any other button does nothing
button_press_event ==
    \E album \in TileAlbums, button \in {1, 2, 3} :
        /\ button = 3 =>
              Len(host.lists[host.active].entries) + Len(album.audio_files) <= MaxEntries
        /\ host' = IF button = 1 THEN add_album_to_playlist(host, album, TRUE)
                   ELSE IF button = 3 THEN add_album_to_playlist(host, album, FALSE)
                   ELSE host
        /\ eval' = [fn |-> "button_press_event", album |-> album, button |-> button,
                    before |-> host]
        /\ PlaylistFrame

\* the user of the host adds a playlist and names it
HostNewPlaylist ==
    \E title \in {T_Album, T_Mix} :
        /\ Len(host.lists) < MaxPlaylists
        /\ host' = set_title(new_playlist(host), host.active + 1, title)
        /\ eval' = NoEval
        /\ PlaylistFrame

\* the user of the host activates a playlist
HostActivate ==
    \E pl \in 1..Len(host.lists) :
        /\ host' = [host EXCEPT !.active = pl]
        /\ eval' = NoEval
        /\ PlaylistFrame

\* the user of the host starts playback in a playlist that has entries
HostPlay ==
    \E pl \in 1..Len(host.lists) :
        /\ host.lists[pl].entries # <<>>
        /\ host' = [host EXCEPT !.playing = pl, !.position = 1]
        /\ eval' = NoEval
        /\ PlaylistFrame

\* the user of the host stops playback
HostStop ==
    /\ host.playing # 0
    /\ host' = [host EXCEPT !.playing = 0, !.position = 0]
    /\ eval' = NoEval
    /\ PlaylistFrame

PlaylistNext ==
    \/ button_press_event
    \/ HostNewPlaylist
    \/ HostActivate
    \/ HostPlay
    \/ HostStop

PlaylistSpec == PlaylistInit /\ [][PlaylistNext]_vars

(***************************************************************************)
(* The claims.  Each formula is checked under the specification named with *)
(* it; the witness is a reachable state in which the claim's case occurs.  *)
(***************************************************************************)
\* the threads inside scan_directory_tree
InScanDirectoryTree(t) == workers[t].pc \in {"start", "pass1", "pass2", "sort"}

\* callbacks invoked so far, over all scans
RECURSIVE SumCbs(_)
SumCbs(t) == IF t = 0 THEN 0 ELSE workers[t].cbs + SumCbs(t - 1)
TotalCallbacks == SumCbs(MaxScans)

\* a step that is a scan_async call made while is_scanning() is true
NoOpCall == n_calls' = n_calls + 1 /\ scanning_

\* C1 (ScannerSpec): a scan_async call issued while is_scanning() is true is
\* a no-op - no worker is spawned, the cancel request is not reset, the
\* running scan keeps its root and callback, the caller does not block - and
\* at every moment at most one worker is inside scan_directory_tree.
C1_AtMostOneScan ==
    /\ [](Cardinality({t \in Threads : InScanDirectoryTree(t)}) <= 1)
    /\ [][NoOpCall => UNCHANGED <<scannerVars, mainVars, glibVars>>]_vars

\* a second call was made while the first scan was running, and was dropped
C1_Witness ==
    /\ n_calls = 2 /\ spawned = 1 /\ mpc = "idle"
    /\ scanning_ /\ InScanDirectoryTree(1)

\* C2 (ScannerSpec): two scan_async calls, the second made before the first
\* scan's completion callback was invoked (and no cancel): exactly one
\* callback invocation in total - never more than one, and one once every
\* thread has returned.
C2_ExactlyOneCallback ==
    (n_calls = 2 /\ second_call_early /\ n_cancels = 0) =>
        /\ TotalCallbacks <= 1
        /\ (mpc = "idle" /\ \A t \in Threads : ~Alive(t)) => TotalCallbacks = 1

\* C3 (ScannerSpec): a scan for which cancel() was called before its
\* completion callback was invoked never has its callback invoked.
C3_CancelSkipsCallback ==
    \A t \in Threads : workers[t].cancelled => workers[t].cbs = 0

\* C5 (ScannerLiveSpec): is_scanning() is true while a scan's worker has not
\* yet stored false to the flag, and every scan that starts leads to "not
\* scanning", whatever its root and whether or not it is cancelled.
C5_ScanEnds ==
    /\ [](\A t \in Threads :
            (InScanDirectoryTree(t) \/ workers[t].pc = "clear") => is_scanning)
    /\ \A t \in Threads : (workers[t].pc = "start") ~> ~is_scanning

\* a cancelled scan of an existing root, back to "not scanning"
C5_Witness ==
    \E t \in Threads :
        /\ workers[t].cancelled /\ workers[t].root = S_n
        /\ workers[t].pc = "finished" /\ ~is_scanning

\* the collections the callback of scan t was given
Delivered(t) ==
    {idle_queue[i].albums : i \in {j \in 1..Len(idle_queue) : idle_queue[j].scan = t}}

\* C6 (ScannerSpec): a scan whose root does not exist or is no directory,
\* and during which cancel() was not called, ends with its callback invoked
\* exactly once, with the empty collection.
C6_MissingRootIsEmptyResult ==
    \A t \in Threads :
        ( /\ workers[t].pc \in {"finished", "joined"}
          /\ ~workers[t].cancelled
          /\ (~Exists(workers[t].root) \/ ~IsDirectory(workers[t].root)) )
        => (workers[t].cbs = 1 /\ Delivered(t) = {<<>>})

\* both kinds of missing root have been scanned to the end
C6_Witness ==
    \E t, u \in Threads :
        /\ workers[t].root = S_x /\ workers[t].pc = "finished" /\ workers[t].cbs = 1
        /\ workers[u].root = S_f /\ workers[u].pc = "joined" /\ workers[u].cbs = 1

\* C4 (Spec): a scan that was cancelled before it completed never reaches
\* update_albums - its collection is not applied to the index and is not
\* written to the cache file - so that the index, the pixbuf cache and the
\* cache file are not changed on its behalf.
C4_CancelledScanNotApplied ==
    \A t \in Threads : workers[t].cancelled => (t \notin applied /\ saved_scan # t)

\* the version and the root directory a cache file holds (lines 766-771)
StoredVersion(file) == U32Value(SubSeq(file.bytes, 1, 4))
StoredRoot(file) == SubSeq(file.bytes, 9, 8 + U32Value(SubSeq(file.bytes, 5, 8)))

\* C7 (Spec): the root directory save_cache wrote into the cache file is the
\* root that was passed to the scan whose albums it wrote with it.
C7_CacheRootIsScanRoot ==
    (saved_scan # 0 /\ cache_file.present) =>
        StoredRoot(cache_file) = workers[saved_scan].root

\* the cases in which a cache file is not valid for a root
CacheIsInvalid(file, root) ==
    \/ ~file.present
    \/ StoredVersion(file) # 1
    \/ StoredRoot(file) # root

\* C9 (Spec): when load_cache finds no cache file, one whose version is not
\* 1 or one whose stored root differs from music_directory_, the index is
\* empty afterwards.
C9_InvalidCacheLoadsEmpty ==
    (load_input.done /\ CacheIsInvalid(load_input.file, load_input.root)) =>
        load_input.result = <<>>

\* C8 (CacheSpec): loading, with the same root, a file that save_cache wrote
\* completely for a root and a collection gives that collection back: the
\* same albums in the same order, each with the same directory_path, title,
\* artist, year, cover_art_path and audio_files.
C8_CacheRoundTrip ==
    \A root \in CacheRoots, albums \in CacheCollections :
        ( /\ load_input.done
          /\ load_input.root = root
          /\ load_input.file = FileOf(SaveCacheBytes(root, albums)) )
        => load_input.result = albums

\* a collection of two albums was written for /n and loaded into an index
\* that was empty
C8_Witness ==
    /\ load_input.done
    /\ load_input.root = S_n
    /\ load_input.prior = <<>>
    /\ load_input.file = FileOf(SaveCacheBytes(S_n, <<AlbumOf[D_B], AlbumOf[D_W]>>))
    /\ Len(load_input.result) = 2

\* a file that ends before the last byte save_cache had to write
IsTruncatedCache(file) ==
    /\ file.present
    /\ \E root \in CacheRoots, albums \in CacheCollections :
          \E n \in 0..(Len(SavedBytes[root, albums]) - 1) :
              file.bytes = SubSeq(SavedBytes[root, albums], 1, n)

\* C10 (CacheSpec): load_cache on a cache file that was truncated, at
\* whatever byte, leaves an index that was empty empty: no partial
\* collection, no album made of values the file does not hold.
C10_TruncatedCacheIsNoCache ==
    ( /\ load_input.done
      /\ load_input.prior = <<>>
      /\ IsTruncatedCache(load_input.file) )
    => load_input.result = <<>>

\* the directories strictly below a scan root
DirsBelow(root) ==
    {d \in FSDirs : /\ Len(d) > Len(root) + 1
                    /\ SubSeq(d, 1, Len(root) + 1) = root \o <<Slash>>}

\* the names of a directory's recognized audio files: regular files whose
\* name does not begin with '.' and ends, ignoring case, in a recognized
\* extension
AudioNames(D) ==
    {Listing(D)[i].name : i \in {j \in 1..Len(Listing(D)) :
        LET e == Listing(D)[j]
        IN  /\ e.kind = "file"
            /\ e.name[1] # Dot
            /\ \E x \in AudioExtensions :
                  /\ Len(e.name) > Len(x)
                  /\ ToLowerAscii(SubSeq(e.name, Len(e.name) - Len(x) + 1, Len(e.name))) = x}}

HasSubdirectory(D) == \E i \in 1..Len(Listing(D)) : Listing(D)[i].kind = "dir"

\* scan t ran over a tree that did not change and could be read, was not
\* cancelled, and has returned
QuietScanDone(t) ==
    /\ workers[t].pc \in {"finished", "joined"}
    /\ ~workers[t].cancelled
    /\ workers[t].failed = {}
    /\ workers[t].gone = {}

\* C11 (TreeSpec): after an uncancelled scan of an unchanging tree, the
\* collection delivered holds, for every directory D below the root that has
\* no subdirectory and at least one non-hidden recognized audio file, exactly
\* one Album with directory_path D, whose audio_files are D's recognized
\* audio files (hidden ones left out) in ascending order; and it holds no
\* Album of any other directory.
C11_LeafAudioDirsBecomeAlbums ==
    \A t \in Threads : QuietScanDone(t) =>
        \A c \in Delivered(t) :
            /\ \A D \in DirsBelow(workers[t].root) :
                  LET is == {i \in 1..Len(c) : c[i].directory_path = D}
                  IN  IF ~HasSubdirectory(D) /\ AudioNames(D) # {}
                      THEN /\ Cardinality(is) = 1
                           /\ \A i \in is :
                                LET fs == c[i].audio_files
                                IN  /\ {fs[k] : k \in 1..Len(fs)}
                                         = {PathJoin(D, n) : n \in AudioNames(D)}
                                    /\ \A k \in 1..(Len(fs) - 1) : StrLess(fs[k], fs[k + 1])
                      ELSE is = {}
            /\ \A i \in 1..Len(c) : c[i].directory_path \in DirsBelow(workers[t].root)

\* the scan of /t has delivered its three albums, /t/A/s with the two files
\* that are not hidden
C11_Witness ==
    \E t \in Threads :
        /\ QuietScanDone(t) /\ workers[t].root = S_t
        /\ \E c \in Delivered(t) :
              /\ Len(c) = 3
              /\ \E i \in 1..3 : /\ c[i].directory_path = D_tAs
                                 /\ Len(c[i].audio_files) = 2

\* the recognized audio files of D that were not deleted when scan t built
\* its Album
AudioLeft(t, D) == {PathJoin(D, n) : n \in AudioNames(D)} \ workers[t].gone

\* C12 (TreeSpec): every Album of a delivered collection has at least one
\* audio file; a directory without recognized audio files, and a candidate
\* whose audio files were all deleted before it was built, has no Album in
\* the collection.
C12_DeliveredAlbumsHaveAudio ==
    \A t \in Threads : \A c \in Delivered(t) :
        /\ \A i \in 1..Len(c) : c[i].audio_files # <<>>
        /\ \A D \in DirsBelow(workers[t].root) :
              AudioLeft(t, D) = {} => \A i \in 1..Len(c) : c[i].directory_path # D

\* a scan of /v during which the only audio file of /v/g was deleted after
\* /v/g had become a candidate: the collection holds /v/k alone
C12_Witness ==
    \E t \in Threads :
        /\ workers[t].root = S_v
        /\ D_vg \in {workers[t].album_dirs[i] : i \in 1..Len(workers[t].album_dirs)}
        /\ PathJoin(D_vg, N_amp3) \in workers[t].gone
        /\ \E c \in Delivered(t) : Len(c) = 1 /\ c[1].directory_path = D_vk

\* a <= b for strings: b is not less than a
StrLeq(a, b) == ~StrLess(b, a)

\* C13 (TreeSpec): every delivered collection is in ascending order of the
\* lowercased title: lower(a.title) <= lower(b.title) for adjacent a, b.
C13_DeliveredSortedByTitle ==
    \A t \in Threads : \A c \in Delivered(t) :
        \A i \in 1..(Len(c) - 1) :
            StrLeq(ToLowerAscii(c[i].title), ToLowerAscii(c[i + 1].title))

\* the scan of /t found /t/A/s, /t/S and /t/B in that order and delivered
\* them with /t/B first
C13_Witness ==
    \E t \in Threads :
        /\ workers[t].root = S_t
        /\ workers[t].album_dirs = <<D_tAs, D_tS, D_tB>>
        /\ \E c \in Delivered(t) : Len(c) = 3 /\ c[1].directory_path = D_tB

\* the position at which scan t discovered directory D
DiscoveryIndex(t, D) ==
    CHOOSE k \in 1..Len(workers[t].album_dirs) : workers[t].album_dirs[k] = D

\* C14 (TreeSpec): two albums of a delivered collection whose titles are
\* equal ignoring case are in the order in which the traversal discovered
\* their directories.
C14_TiesKeepDiscoveryOrder ==
    \A t \in Threads : \A c \in Delivered(t) :
        \A i, j \in 1..Len(c) :
            (i < j /\ ToLowerAscii(c[i].title) = ToLowerAscii(c[j].title))
            => DiscoveryIndex(t, c[i].directory_path)
                 < DiscoveryIndex(t, c[j].directory_path)

\* directory D is the directory F or lies in the subtree below it
InSubtree(D, F) ==
    \/ D = F
    \/ /\ Len(D) > Len(F) + 1
       /\ SubSeq(D, 1, Len(F) + 1) = F \o <<Slash>>

\* C15 (TreeSpec): a directory whose reading fails takes only its own
\* subtree out of the scan: an uncancelled scan still delivers an Album for
\* every leaf directory with audio files that lies outside the subtrees that
\* could not be read, those the traversal reaches after the failure included.
C15_ReadErrorLosesOnlyItsSubtree ==
    \A t \in Threads :
        ( /\ workers[t].pc \in {"finished", "joined"}
          /\ ~workers[t].cancelled
          /\ workers[t].gone = {} )
        => \A c \in Delivered(t) :
            \A D \in DirsBelow(workers[t].root) :
                ( /\ ~HasSubdirectory(D)
                  /\ AudioNames(D) # {}
                  /\ \A f \in workers[t].failed : ~InSubtree(D, f.dir) )
                => \E i \in 1..Len(c) : c[i].directory_path = D

\* the step of the main loop that runs update_albums: the only one that
\* takes a handoff off the idle queue
IsUpdateAlbumsStep == idle_queue # <<>> /\ idle_queue' = Tail(idle_queue)

\* every pixbuf of the cache belongs to an Album of `albums` and is the one
\* that Album's record loads
CacheComesFrom(cache, albums) ==
    \A e \in cache :
        \E i \in 1..Len(albums) :
            /\ albums[i].directory_path = e.key
            /\ e.pixbuf = LoadPixbuf(albums[i])

\* the cache file holds exactly the collection `albums`
Persisted(file, albums) ==
    /\ file.present
    /\ \A g \in Garbage : LoadCache(file, StoredRoot(file), <<>>, g) = albums

IsSubstring(sub, s) ==
    \E i \in 1..(Len(s) + 1), j \in 0..Len(s) : SubSeq(s, i, j) = sub

\* s with its letters A-Z replaced by a-z
Lower(s) == [i \in 1..Len(s) |-> IF s[i] >= 65 /\ s[i] <= 90 THEN s[i] + 32 ELSE s[i]]

\* the decimal representation of n >= 0: the digit string without a leading
\* zero whose value is n
NumberOfDigits(n) == CHOOSE k \in 1..10 : n < 10^k /\ (k = 1 \/ n >= 10^(k - 1))
Decimal(n) == [i \in 1..NumberOfDigits(n) |-> 48 + ((n \div 10^(NumberOfDigits(n) - i)) % 10)]

\* the query occurs, ignoring case, in one of the three strings of the Album
MatchesText(album, q) ==
    \/ IsSubstring(Lower(q), Lower(album.title))
    \/ IsSubstring(Lower(q), Lower(album.artist))
    \/ IsSubstring(Lower(q), Lower(album.directory_path))

\* C17 (PureSpec): the empty query matches every Album; a non-empty query q
\* matches an Album exactly when q lowercased is a substring of the
\* lowercased title, artist or directory_path, or the year is not 0 and its
\* decimal string contains q as typed.
C17_FilterPredicate ==
    eval.fn = "album_matches_filter" =>
        eval.out = ( \/ eval.filter = <<>>
                     \/ MatchesText(eval.album, eval.filter)
                     \/ /\ eval.album.year # 0
                        /\ IsSubstring(eval.filter, Decimal(eval.album.year)) )

\* a query that matches an Album through its year alone
C17_Witness ==
    /\ eval.fn = "album_matches_filter"
    /\ eval.filter # <<>>
    /\ ~MatchesText(eval.album, eval.filter)
    /\ eval.album.year # 0
    /\ IsSubstring(eval.filter, Decimal(eval.album.year))
    /\ eval.out

\* C18 (PureSpec): a query q matches an Album exactly when q lowercased
\* occurs in the lowercased title, artist or directory_path, or q occurs in
\* the decimal representation of the year, whatever the year is, the 0 of
\* an unknown year included.
C18_YearZeroIsSearched ==
    eval.fn = "album_matches_filter" =>
        eval.out = ( \/ MatchesText(eval.album, eval.filter)
                     \/ IsSubstring(eval.filter, Decimal(eval.album.year)) )

\* the last component of a path: what follows its last '/'
LeafName(p) ==
    LET k == CHOOSE n \in 0..Len(p) :
                 /\ n = 0 \/ p[n] = Slash
                 /\ \A i \in (n + 1)..Len(p) : p[i] # Slash
    IN  SubSeq(p, k + 1, Len(p))

IsWhite(c) == c \in {9, 10, 11, 12, 13, 32}

\* s without its leading and trailing white space
Trim(s) ==
    LET inked == {i \in 1..Len(s) : ~IsWhite(s[i])}
    IN  IF inked = {} THEN <<>>
        ELSE SubSeq(s, CHOOSE i \in inked : \A j \in inked : i <= j,
                       CHOOSE i \in inked : \A j \in inked : j <= i)

\* the leaf is '(', four decimal digits, ')', one or more spaces and a
\* remainder
HasYearForm(leaf) ==
    /\ Len(leaf) >= 8
    /\ leaf[1] = 40
    /\ \A i \in 2..5 : leaf[i] \in 48..57
    /\ leaf[6] = 41
    /\ IsWhite(leaf[7])

\* the value of the four digits
FourDigits(leaf) ==
    (leaf[2] - 48) * 1000 + (leaf[3] - 48) * 100 + (leaf[4] - 48) * 10 + (leaf[5] - 48)

\* C19 (PureSpec): for a leaf name of the form '(' four digits ')' spaces
\* remainder, year is the value of the digits and title is the remainder
\* with the white space around it trimmed; for any other leaf name title is
\* the leaf name and year is 0.
C19_TitleAndYearRule ==
    eval.fn = "extract_metadata" =>
        LET leaf == LeafName(eval.path)
        IN  IF HasYearForm(leaf)
            THEN /\ eval.out.year = FourDigits(leaf)
                 /\ eval.out.title = Trim(SubSeq(leaf, 7, Len(leaf)))
            ELSE /\ eval.out.year = 0
                 /\ eval.out.title = leaf

\* the name of the directory a path's last component lies in; empty when
\* the path has a single component
ParentLeafName(p) ==
    IF Positions(p, Slash) = {} THEN <<>>
    ELSE LeafName(SubSeq(p, 1, Len(p) - Len(LeafName(p)) - 1))

Reserved(name) ==
    \/ name = <<77, 117, 115, 105, 99>>
    \/ name = <<109, 117, 115, 105, 99>>
    \/ name = <<65, 108, 98, 117, 109, 115>>
    \/ name = <<97, 108, 98, 117, 109, 115>>

\* C20 (PureSpec): artist is the name of the parent directory when that
\* name is not empty and is not exactly Music, music, Albums or albums, and
\* is empty otherwise, a path without parent included; it is the same for
\* every leaf name in one parent directory, whatever the title and year
\* rule makes of the leaf.
C20_ArtistRule ==
    eval.fn = "extract_metadata" =>
        LET parent == ParentLeafName(eval.path)
        IN  /\ eval.out.artist =
                 IF parent # <<>> /\ ~Reserved(parent) THEN parent ELSE <<>>
            /\ \A leaf \in MetaLeaves :
                 extract_metadata(SubSeq(eval.path, 1, Len(eval.path) - Len(LeafName(eval.path)))
                                    \o leaf).artist = eval.out.artist

\* a directory named by the year pattern, two levels below a directory with
\* a reserved name, gets its parent's name as artist
C20_Witness ==
    /\ eval.fn = "extract_metadata"
    /\ eval.path = PathJoin(P_MusicP, L_1994Dummy)
    /\ eval.out.artist = N_P
    /\ eval.out.year = 1994

\* the names of directory D's regular files
FileNames(D) ==
    {Listing(D)[i].name : i \in {j \in 1..Len(Listing(D)) : Listing(D)[j].kind = "file"}}

\* the positions in the priority list of the names that are files of D
PriorityHits(D) == {i \in 1..Len(cover_names) : cover_names[i] \in FileNames(D)}

\* the positions in D's listing of the regular files that are not hidden
\* and have an image extension, ignoring case
ImagePositions(D) ==
    {i \in 1..Len(Listing(D)) :
        LET e == Listing(D)[i]
        IN  /\ e.kind = "file"
            /\ e.name[1] # Dot
            /\ \E x \in ImageExtensions :
                  /\ Len(e.name) > Len(x)
                  /\ ToLowerAscii(SubSeq(e.name, Len(e.name) - Len(x) + 1, Len(e.name))) = x}

\* the file is a FLAC or MP3 file that carries a picture
CarriesPicture(f) ==
    /\ HasEmbeddedPicture(f)
    /\ \E x \in {<<46, 102, 108, 97, 99>>, <<46, 109, 112, 51>>} :
          ToLowerAscii(SubSeq(f, Len(f) - Len(x) + 1, Len(f))) = x

\* C21 (CoverSpec): in the collection an uncancelled scan of an unchanging
\* tree delivers, the cover_art_path of the Album of directory D is the
\* first name of the priority list that is a regular file of D; else D's
\* first non-hidden regular file with an image extension, in iteration
\* order; else, the Album having audio files, what the extraction from the
\* smallest audio file gave (its temporary file when it carries a picture
\* and nothing failed, nothing when it carries none); else empty.  And an
\* extraction is only ever attempted on the smallest audio file of a
\* directory without image file.
C21_CoverArtOrder ==
    \A t \in Threads :
        ( /\ workers[t].pc \in {"finished", "joined"}
          /\ ~workers[t].cancelled
          /\ workers[t].gone = {} )
        => /\ \A c \in Delivered(t) : \A k \in 1..Len(c) :
                LET D == c[k].directory_path
                    cover == c[k].cover_art_path
                    first == c[k].audio_files[1]
                IN  /\ \A j \in 1..Len(c[k].audio_files) :
                          StrLeq(first, c[k].audio_files[j])
                    /\ IF PriorityHits(D) # {}
                       THEN cover = PathJoin(D, cover_names[MinOf(PriorityHits(D))])
                       ELSE IF ImagePositions(D) # {}
                       THEN cover = PathJoin(D, Listing(D)[MinOf(ImagePositions(D))].name)
                       ELSE /\ cover \in {<<>>, TempCoverPath(first)}
                            /\ ~CarriesPicture(first) => cover = <<>>
                            /\ (CarriesPicture(first) /\ first \notin FaultyMedia)
                                  => cover = TempCoverPath(first)
           /\ \A f \in workers[t].tried :
                /\ PriorityHits(ParentPath(f)) = {}
                /\ ImagePositions(ParentPath(f)) = {}
                /\ \A n \in AudioNames(ParentPath(f)) :
                      StrLeq(f, PathJoin(ParentPath(f), n))

\* a scan of /c has delivered its six Albums: the listed name Folder.jpg
\* wins over the images before it, z.GIF is taken where no listed name
\* exists, the picture of x.flac was extracted, and the Album whose
\* smallest audio file carries no picture has no cover
C21_Witness ==
    \E t \in Threads : \E c \in Delivered(t) :
        /\ workers[t].root = S_c
        /\ workers[t].pc \in {"finished", "joined"}
        /\ Len(c) = 6
        /\ \E k \in 1..6 : c[k].cover_art_path = PathJoin(D_cp, N_Folderjpg)
        /\ \E k \in 1..6 : c[k].cover_art_path = PathJoin(D_ci, N_zGIF)
        /\ \E k \in 1..6 : c[k].cover_art_path = TempCoverPath(PathJoin(D_cx, N_xflac))
        /\ \E k \in 1..6 : c[k].directory_path = D_cm /\ c[k].cover_art_path = <<>>
        /\ workers[t].tried =
             {PathJoin(D_cm, N_1mp3), PathJoin(D_cx, N_xflac), PathJoin(D_co, N_1ogg),
              PathJoin(D_ch, N_amp3)}

\* the path is that of a temporary file of extract_embedded_art
IsTempCover(p) ==
    \E d \in FSDirs : \E n \in FileNames(d) : p = TempCoverPath(PathJoin(d, n))

\* C22 (CoverSpec): a cover_art_path that an extraction produced names a
\* temporary file that was written with the picture; when the tags fail to
\* parse or the temporary file cannot be opened or written, the Album's
\* cover_art_path is empty.
C22_ExtractedCoverWasWritten ==
    \A t \in Threads : \A c \in Delivered(t) : \A k \in 1..Len(c) :
        IsTempCover(c[k].cover_art_path) => c[k].cover_art_path \in workers[t].temp

\* what a decoder of percent-encoding reads from an encoded string
HexValue(c) == IF c <= 57 THEN c - 48 ELSE c - 55

RECURSIVE PercentDecoded(_)
PercentDecoded(str) ==
    IF str = <<>> THEN <<>>
    ELSE IF str[1] = 37 /\ Len(str) >= 3
    THEN <<16 * HexValue(str[2]) + HexValue(str[3])>>
         \o PercentDecoded(SubSeq(str, 4, Len(str)))
    ELSE <<str[1]>> \o PercentDecoded(Tail(str))

\* the file a playlist entry plays: the path of its file:// URI
FileOfEntry(uri) ==
    IF Len(uri) >= Len(U_file) /\ SubSeq(uri, 1, Len(U_file)) = U_file
    THEN PercentDecoded(SubSeq(uri, Len(U_file) + 1, Len(uri)))
    ELSE <<>>

FilesOfEntries(entries) == [i \in 1..Len(entries) |-> FileOfEntry(entries[i])]

Clicked(button) == eval.fn = "button_press_event" /\ eval.button = button

\* C23: after an enqueue in replace mode the first playlist titled "Album"
\* (made when there was none) holds exactly the album's audio_files, in
\* order, and playback of its first entry has been started.
C23_ReplaceFillsAndPlays ==
    Clicked(1) =>
        \E pl \in 1..Len(host.lists) :
            /\ host.lists[pl].title = T_Album
            /\ \A i \in 1..(pl - 1) : host.lists[i].title # T_Album
            /\ FilesOfEntries(host.lists[pl].entries) = eval.album.audio_files
            /\ host.playing = pl
            /\ host.position = 1

\* the part of C23 about the contents of the "Album" playlist
ReplaceFills ==
    Clicked(1) =>
        \E pl \in 1..Len(host.lists) :
            /\ host.lists[pl].title = T_Album
            /\ \A i \in 1..(pl - 1) : host.lists[i].title # T_Album
            /\ FilesOfEntries(host.lists[pl].entries) = eval.album.audio_files

\* playback is started by a replace whenever an "Album" playlist was playing
ReplacePlaysWhenAlbumPlayed ==
    (Clicked(1) /\ eval.before.playing # 0
        /\ eval.before.lists[eval.before.playing].title = T_Album) =>
        (host.playing # 0 /\ host.position = 1
            /\ host.lists[host.playing].title = T_Album)

\* C24: an enqueue in append mode puts the album's audio_files, in order,
\* behind the last entry of the active playlist; the entries that were
\* there, every other playlist, the active playlist and the playback state
\* are what they were.
C24_AppendKeepsTheRest ==
    Clicked(3) =>
        LET before == eval.before
            active == before.active
            n == Len(before.lists[active].entries)
            entries == host.lists[active].entries
        IN  /\ Len(host.lists) = Len(before.lists)
            /\ host.active = active
            /\ host.playing = before.playing
            /\ host.position = before.position
            /\ \A pl \in 1..Len(before.lists) :
                  pl # active => host.lists[pl] = before.lists[pl]
            /\ host.lists[active].title = before.lists[active].title
            /\ Len(entries) = n + Len(eval.album.audio_files)
            /\ SubSeq(entries, 1, n) = before.lists[active].entries
            /\ FilesOfEntries(SubSeq(entries, n + 1, Len(entries)))
                  = eval.album.audio_files

\* an album of two files whose paths need encoding is appended to a playlist
\* with entries while another playlist is playing
C24_Witness ==
    /\ Clicked(3)
    /\ eval.album = AlbumOf[D_W]
    /\ Len(eval.album.audio_files) = 2
    /\ eval.before.lists[eval.before.active].entries # <<>>
    /\ eval.before.playing \notin {0, eval.before.active}
    /\ host.lists[host.active].entries # FilesOfEntries(host.lists[host.active].entries)

\* std::thread::joinable of the thread made for scan t
Joinable(t) == workers[t].pc \notin {"unborn", "joined"}

\* C25: the worker threads are used one after the other: at most one of
\* them is alive, every thread but the one scan_thread_ holds has returned
\* (its callback included) and been joined, and scan_thread_ holds the
\* thread spawned last.
C25_SequentialThreadReuse ==
    /\ Cardinality({t \in Threads : Alive(t)}) <= 1
    /\ scan_thread_ = spawned
    /\ \A t \in Threads : t # scan_thread_ => ~Joinable(t)
    /\ \A t \in Threads :
          (workers[t].pc = "joined" /\ workers[t].callback # "none"
              /\ ~workers[t].cancelled) => workers[t].cbs = 1

\* a second scan is running whose scan_async was called before the first
\* scan's callback had been invoked: the join waited for that callback
C25_Witness ==
    /\ second_call_early
    /\ spawned = 2
    /\ Alive(2)
    /\ workers[1].pc = "joined"
    /\ workers[1].cbs = 1

\* thread t takes a step of its own in this transition (a cancel() that marks
\* its scan, its spawn and its join are steps of the main thread)
WorkerRan(t) ==
    /\ Alive(t)
    /\ [workers'[t] EXCEPT !.cancelled = workers[t].cancelled] # workers[t]

\* C26 (Spec): a step of a worker thread leaves the index albums_, the
\* pixbuf cache, the cache file and the grid alone; the only thing it does
\* to the main thread is to append, in its callback, a copy of its
\* collection to the idle queue; and the main loop applies the queued
\* collections oldest scan first.
C26_HandoffDiscipline ==
    [][ /\ \A t \in Threads :
              WorkerRan(t) =>
                  /\ UNCHANGED <<albums_, pixbuf_cache_, cache_file, grid>>
                  /\ idle_queue' # idle_queue =>
                        /\ workers[t].pc = "call"
                        /\ idle_queue' = Append(idle_queue,
                              [scan |-> t, callback |-> workers[t].callback,
                               albums |-> workers[t].albums])
        /\ IsUpdateAlbumsStep =>
              /\ albums_' = Head(idle_queue).albums
              /\ \A s \in applied : s < Head(idle_queue).scan
              /\ \A i \in 2..Len(idle_queue) :
                    idle_queue[i].scan > Head(idle_queue).scan
      ]_vars

\* two scans have completed and queued different collections, the first of
\* which the main loop has applied while the second waits
C26_Witness ==
    /\ plugin = "on"
    /\ applied = {1}
    /\ Len(idle_queue) = 1
    /\ idle_queue[1].scan = 2
    /\ idle_queue[1].albums # albums_
    /\ albums_ = workers[1].albums
    /\ albums_ # <<>>

\* cancel() was requested for the scan of thread t, which still runs
CancelledRunning(t) == workers[t].cancelled /\ Alive(t)

\* C27 (CancelSpec): once cancel() has been requested during a scan, the
\* worker goes on to no further directory entry, collects no further
\* candidate and builds no further Album; and a scan cancelled during the
\* first pass never has an Album.
C27_CancelGranularity ==
    /\ [][\A t \in Threads :
            (CancelledRunning(t) /\ workers[t].pc # "start") =>
                /\ workers'[t].pos = workers[t].pos
                /\ workers'[t].album_dirs = workers[t].album_dirs
                /\ Len(workers'[t].albums) = Len(workers[t].albums)
                /\ workers'[t].tried = workers[t].tried]_vars
    /\ \A t \in Threads :
          []((workers[t].cancelled /\ workers[t].pc \in {"start", "pass1"})
                => [](workers[t].albums = <<>>))

\* a scan of /t was cancelled during the first pass after it had collected
\* a candidate, and has ended without an Album
C27_Witness ==
    \E t \in Threads :
        /\ workers[t].cancelled
        /\ workers[t].root = S_t
        /\ workers[t].album_dirs # <<>>
        /\ workers[t].pos <= Len(WalkOf[S_t])
        /\ workers[t].pc = "finished"
        /\ workers[t].albums = <<>>

\* a scan of the current root has completed and been applied to the index
CurrentRootApplied == \E t \in applied : workers[t].root = music_directory_

\* C28 (RefreshSpec): whenever the window is up, a scan of the root that is
\* then current is eventually applied to the index, or the root is changed
\* again.
C28_RefreshHonoured ==
    \A folder \in Folders :
        [](( plugin = "on" /\ main_widget_ /\ music_directory_ = folder )
              => <>( CurrentRootApplied \/ music_directory_ # folder ))

\* the same for a request made while no scan is in flight and the scanner
\* can still spawn a thread
RefreshStartsScanWhenIdle ==
    [][(music_directory_' # music_directory_ /\ plugin = "on" /\ ~is_scanning
           /\ spawned < MaxScans)
          => (mpc' = "join" /\ pending'.root = music_directory_')]_vars

\* the Albums of the tiles of a grid, in the order of the cells
GridAlbums(g) == [i \in 1..Len(g) |-> g[i].album]

\* the Albums of a collection that match a filter, in the collection's order
RECURSIVE Matching(_, _, _)
Matching(albums, i, filter) ==
    IF i > Len(albums) THEN <<>>
    ELSE (IF album_matches_filter(albums[i], filter) THEN <<albums[i]>> ELSE <<>>)
         \o Matching(albums, i + 1, filter)

\* C29 (Spec): after update_albums has applied a collection while the window
\* is up, the grid shows exactly the Albums of the new index that match the
\* search filter, in index order.
C29_GridShowsNewIndex ==
    [][(IsUpdateAlbumsStep /\ main_widget_) =>
          GridAlbums(grid') = Matching(albums_', 1, search_filter_')]_vars

\* the same for the steps in which the new index has an Album and the filter
\* text or the number of columns differs from that of the previous layout
GridShowsNewIndexAfterLayout ==
    [][(IsUpdateAlbumsStep /\ main_widget_ /\ albums_' # <<>>
          /\ (search_filter_ # last_search_filter_
                \/ Max(1, window_width \div tile_width) # last_cols_per_row_)) =>
          GridAlbums(grid') = Matching(albums_', 1, search_filter_')]_vars

\* C30 (Spec): once cleanup() has run and until init() runs again, no scan
\* result is applied: the index stays empty and the cache file is not
\* rewritten.
C30_NothingAppliedAfterCleanup ==
    /\ [](plugin = "off" => albums_ = <<>>)
    /\ [][(plugin = "off" /\ plugin' = "off") =>
            (albums_' = albums_ /\ cache_file' = cache_file /\ applied' = applied)]_vars

\* while the plugin is disabled and no handoff is queued, the index and the
\* cache file stay as they are
DisabledPluginKeepsIndexWithoutHandoff ==
    [][(plugin = "off" /\ plugin' = "off" /\ idle_queue = <<>>) =>
            (albums_' = albums_ /\ cache_file' = cache_file)]_vars

\* C31 (ScannerSpec): the worker stores false to scanning_ before it invokes
\* the callback: while the callback of a scan is about to run, and once it
\* has been invoked, is_scanning() is true only on account of a scan that
\* was started later.
C31_FlagClearedBeforeCallback ==
    \A t \in Threads :
        /\ workers[t].pc = "call" => ~is_scanning
        /\ (workers[t].cbs > 0 /\ is_scanning) => scan_thread_ > t
        /\ \A i \in 1..Len(idle_queue) :
              (idle_queue[i].scan = t /\ is_scanning) => scan_thread_ > t

\* the callback of the scan that scan_thread_ holds has been invoked and the
\* flag is clear
C31_Witness ==
    \E t \in Threads :
        /\ scan_thread_ = t
        /\ workers[t].pc = "finished"
        /\ workers[t].cbs = 1
        /\ ~is_scanning
        /\ \E i \in 1..Len(idle_queue) : idle_queue[i].scan = t

\* the thread of scan t has returned
Returned(t) == workers[t].pc \in {"finished", "joined"}

\* C32 (ScannerLiveSpec): a cancel request made before a scan was started
\* does not reach that scan: a scan for which cancel() was not called after
\* its start builds its whole collection and invokes its callback once, and
\* it does so eventually.
C32_CancelNotSticky ==
    /\ [](\A t \in Threads :
            (Returned(t) /\ ~workers[t].cancelled) =>
                /\ workers[t].callback # "none" => workers[t].cbs = 1
                /\ workers[t].root = S_n => workers[t].albums = <<AlbumOf[D_B]>>)
    /\ \A t \in Threads :
          [](Alive(t) => <>(workers[t].cancelled \/ (Returned(t) /\ workers[t].cbs = 1)))

\* the first scan was cancelled; the second, started with the request still
\* standing, has delivered the Album of /n/B to its callback
C32_Witness ==
    /\ workers[1].cancelled
    /\ workers[1].cbs = 0
    /\ ~workers[2].cancelled
    /\ workers[2].root = S_n
    /\ workers[2].pc = "finished"
    /\ workers[2].cbs = 1
    /\ workers[2].albums = <<AlbumOf[D_B]>>
    /\ n_cancels = 1

\* path p lies strictly below the directory root
StrictlyBelow(p, root) ==
    /\ Len(p) > Len(root) + 1
    /\ SubSeq(p, 1, Len(root) + 1) = root \o <<Slash>>

\* C33 (LeafRootSpec): the root of a scan is never a candidate: every
\* candidate and every Album of a scan lies strictly below its root, and a
\* scan whose root is a leaf directory with audio files delivers an empty
\* collection.
C33_RootIsNoCandidate ==
    \A t \in Threads :
        /\ \A i \in 1..Len(workers[t].album_dirs) :
              StrictlyBelow(workers[t].album_dirs[i], workers[t].root)
        /\ \A i \in 1..Len(workers[t].albums) :
              StrictlyBelow(workers[t].albums[i].directory_path, workers[t].root)
        /\ \A i \in 1..Len(idle_queue) :
              ( /\ idle_queue[i].scan = t
                /\ is_leaf_directory(workers[t].root)
                /\ contains_audio_files(workers[t].root) )
                  => idle_queue[i].albums = <<>>

\* a scan of "/l/P/(1979) W", a leaf directory with two audio files, has
\* handed an empty collection to its callback
C33_Witness ==
    \E t \in Threads : \E i \in 1..Len(idle_queue) :
        /\ workers[t].root = D_W
        /\ is_leaf_directory(D_W)
        /\ contains_audio_files(D_W)
        /\ workers[t].cbs = 1
        /\ idle_queue[i].scan = t
        /\ idle_queue[i].albums = <<>>

\* the step in which the file monitor reports a relevant event
IsMonitorEvent == next_source' = next_source + 1

\* the step in which the rescan timer fires
IsRescanTimeout == sources # {} /\ sources' = {} /\ plugin' = "on"

\* C34 (Spec): at most one rescan timer is pending, and rescan_timeout_id_
\* is its id, or 0 when none is; an event leaves the timer it arms as the
\* only one; the timer that fires is the one the last event armed, and its
\* handler calls refresh_albums, which starts a scan of the current root
\* unless one is running.
C34_Debounce ==
    /\ [](Cardinality(sources) <= 1 /\ sources = {rescan_timeout_id_} \ {0})
    /\ [][IsMonitorEvent =>
            (sources' = {next_source} /\ rescan_timeout_id_' = next_source)]_vars
    /\ [][IsRescanTimeout =>
            /\ sources = {next_source - 1}
            /\ rescan_timeout_id_' = 0
            /\ ~is_scanning => (mpc' = "join" /\ pending'.root = music_directory_
                                   /\ n_calls' = n_calls + 1)
            /\ is_scanning => UNCHANGED <<mpc, pending, n_calls>>]_vars

\* two events came in a burst before the window was made; the one timer left
\* has fired and its refresh_albums is the only call of scan_async so far
C34_Witness ==
    /\ plugin = "on"
    /\ ~main_widget_
    /\ next_source = 3
    /\ sources = {}
    /\ rescan_timeout_id_ = 0
    /\ n_calls = 1
    /\ mpc = "join"
    /\ pending.root = music_directory_

=============================================================================
